---- MODULE Spec2Model ----
(***************************************************************************)
(* Model of src/index.js: the WebsiteAuditor class.                        *)
(*                                                                         *)
(* generateFullReport awaits eight probes one after another, builds the    *)
(* report object, writes it with fs.writeFileSync and prints a summary.    *)
(* Every probe is a try / catch / finally around a list of awaited browser *)
(* calls.  Each awaited call of the environment (puppeteer, lighthouse,    *)
(* axios, fs) either resolves or rejects; the model draws that outcome     *)
(* nondeterministically.  analyzeButtonsAndFields can also be called on    *)
(* its own with an explicit concurrency argument, which is the second      *)
(* entry point of the model.                                               *)
(***************************************************************************)
EXTENDS Integers, Sequences, FiniteSets, TLC

(* ------------------------------ bounds -------------------------------- *)
MaxButtons == 3
MaxInputs == 2
MaxConcurrency == 3

(* ------------------------- program constants --------------------------- *)
DefaultConcurrency == 1000

(* JS null and "not assigned yet", as records so that every probe result  *)
(* is a record.                                                            *)
Null == [null |-> TRUE]
Unset == [undefined |-> TRUE]
NoError == "null"
ErrorMessage == "Error: evaluation failed"

EmptyObject == [k \in {} |-> 0]

(* --------------------------- probe skeletons --------------------------- *)
(* The order of the awaits of generateFullReport; the names are the keys   *)
(* the results get in the report.                                          *)
ProbeOrder ==
    << "performance", "security", "accessibility", "stressTest",
       "thirdPartyServices", "formValidation", "pwaReadiness", "backlinks" >>

Probes == { ProbeOrder[i] : i \in 1..Len(ProbeOrder) }

(* The awaited calls a probe makes before its try block is entered.        *)
PreTrySteps(p) ==
    CASE p = "performance" -> << >>
      [] p = "security" -> << >>
      [] p = "stressTest" -> << "launch", "newPage" >>
      [] OTHER -> << "launch" >>

(* The calls inside the probe's try block, in program order.               *)
TryStepsListenAfterGoto(p) ==
    CASE p = "performance" -> << "launch", "lighthouse", "processLighthouseResults" >>
      [] p = "security" -> << "axiosGet" >>
      [] p = "accessibility" -> << "newPage", "goto", "evaluate" >>
      [] p = "stressTest" ->
            << "setUserAgent", "goto", "evalButtons", "evalInputs",
               "clickButtons", "fillInputs", "evalCors" >>
      [] p = "thirdPartyServices" -> << "newPage", "goto", "onRequest", "reduceRequests" >>
      [] p = "formValidation" -> << "newPage", "goto", "evaluate", "testForms" >>
      [] p = "pwaReadiness" ->
            << "newPage", "goto", "evaluate", "offlineTest", "setOfflineModeFalse" >>
      [] p = "backlinks" -> << "newPage", "goto", "evaluate", "checkLinks" >>

TrySteps(p) ==
    CASE p = "performance" -> << "launch", "lighthouse", "processLighthouseResults" >>
      [] p = "security" -> << "axiosGet" >>
      [] p = "accessibility" -> << "newPage", "goto", "evaluate" >>
      [] p = "stressTest" ->
            << "setUserAgent", "goto", "evalButtons", "evalInputs",
               "clickButtons", "fillInputs", "evalCors" >>
      [] p = "thirdPartyServices" -> << "newPage", "onRequest", "goto", "reduceRequests" >>
      [] p = "formValidation" -> << "newPage", "goto", "evaluate", "testForms" >>
      [] p = "pwaReadiness" ->
            << "newPage", "goto", "evaluate", "offlineTest", "setOfflineModeFalse" >>
      [] p = "backlinks" -> << "newPage", "goto", "evaluate", "checkLinks" >>

(* Calls whose rejection leaves the call as an exception.  The others are  *)
(* synchronous bookkeeping or loops that catch per item.                   *)
MayThrow ==
    { "launch", "newPage", "setUserAgent", "goto", "evaluate", "lighthouse",
      "processLighthouseResults", "axiosGet", "evalButtons", "evalInputs",
      "evalCors", "setOfflineModeFalse" }

(* The steps of the sweep that have their own actions.                     *)
SweepSteps == { "evalButtons", "evalInputs", "clickButtons", "fillInputs", "evalCors" }

(* Does the probe's finally block call close()/kill()?  analyzePerformance *)
(* guards the call with `if (chrome)`; analyzeSecurity has no browser.     *)
NeedsCloseLeakAccessibility(p) == p \notin {"security", "accessibility"}

NeedsClose(p) == p # "security"

(* ------------------------------ payloads ------------------------------- *)
(* The audited page is fixed; what varies is which awaited call fails and  *)
(* how many buttons and inputs the page has.                               *)
Url == "https://example.com/"

MetricNames ==
    { "firstContentfulPaint", "largestContentfulPaint", "speedIndex",
      "totalBlockingTime", "cumulativeLayoutShift" }

LighthouseScore == 90

processLighthouseResults ==
    [ performance |-> [score |-> LighthouseScore, metrics |-> [m \in MetricNames |-> 1]],
      accessibility |-> [score |-> LighthouseScore, issues |-> << >>],
      bestPractices |-> [score |-> LighthouseScore],
      seo |-> [score |-> LighthouseScore] ]

PerformanceFallback ==
    [ performance |-> [score |-> 0, metrics |-> EmptyObject],
      accessibility |-> [score |-> 0, issues |-> << >>],
      bestPractices |-> [score |-> 0],
      seo |-> [score |-> 0] ]

SecurityHeaderNames ==
    { "Strict-Transport-Security", "Content-Security-Policy", "X-Frame-Options",
      "X-Content-Type-Options", "Referrer-Policy", "Permissions-Policy",
      "X-XSS-Protection" }

(* The security headers the audited page answers with.                     *)
PageHeaders == { "Strict-Transport-Security", "X-Frame-Options" }

securityHeaders == [h \in SecurityHeaderNames |-> h \in PageHeaders]

weightsCspTwenty(h) ==
    CASE h = "Strict-Transport-Security" -> 20
      [] h = "Content-Security-Policy" -> 20
      [] h = "X-Frame-Options" -> 15
      [] h = "X-Content-Type-Options" -> 15
      [] h = "Referrer-Policy" -> 10
      [] h = "Permissions-Policy" -> 10
      [] h = "X-XSS-Protection" -> 5

weights(h) ==
    CASE h = "Strict-Transport-Security" -> 20
      [] h = "Content-Security-Policy" -> 25
      [] h = "X-Frame-Options" -> 15
      [] h = "X-Content-Type-Options" -> 15
      [] h = "Referrer-Policy" -> 10
      [] h = "Permissions-Policy" -> 10
      [] h = "X-XSS-Protection" -> 5

RECURSIVE SumWeights(_, _)
SumWeights(headers, names) ==
    IF names = {} THEN 0
    ELSE LET h == CHOOSE n \in names : TRUE
         IN  (IF headers[h] THEN weights(h) ELSE 0) + SumWeights(headers, names \ {h})

calculateSecurityScore(headers) == SumWeights(headers, DOMAIN headers)

generateSecurityRecommendationsAlsoFrameOptions(headers) ==
    (IF ~headers["Strict-Transport-Security"]
        THEN << [priority |-> "High", message |-> "Implement HSTS to enforce HTTPS connections"] >>
        ELSE << >>)
    \o
    (IF ~headers["Content-Security-Policy"]
        THEN << [priority |-> "High",
                 message |-> "Implement Content Security Policy to prevent XSS attacks"] >>
        ELSE << >>)
    \o
    (IF ~headers["X-Frame-Options"]
        THEN << [priority |-> "High", message |-> "Implement X-Frame-Options"] >>
        ELSE << >>)

generateSecurityRecommendations(headers) ==
    (IF ~headers["Strict-Transport-Security"]
        THEN << [priority |-> "High", message |-> "Implement HSTS to enforce HTTPS connections"] >>
        ELSE << >>)
    \o
    (IF ~headers["Content-Security-Policy"]
        THEN << [priority |-> "High",
                 message |-> "Implement Content Security Policy to prevent XSS attacks"] >>
        ELSE << >>)

SecuritySuccess ==
    [ headers |-> securityHeaders,
      score |-> calculateSecurityScore(securityHeaders),
      recommendations |-> generateSecurityRecommendations(securityHeaders) ]

SecurityFallback == [headers |-> EmptyObject, score |-> 0, recommendations |-> << >>]

AccessibilitySuccess ==
    [ images |-> [total |-> 2, withAlt |-> 1],
      headings |-> [total |-> 2, structure |-> << "H1", "H2" >>],
      landmarks |-> [total |-> 1, types |-> [t \in {"main"} |-> 1]],
      forms |-> [total |-> 1, withLabels |-> 1],
      ariaAttributes |-> [total |-> 0, elements |-> << >>] ]

AccessibilityFallback ==
    [ images |-> [total |-> 0, withAlt |-> 0],
      headings |-> [total |-> 0, structure |-> << >>],
      landmarks |-> [total |-> 0, types |-> EmptyObject],
      forms |-> [total |-> 0, withLabels |-> 0],
      ariaAttributes |-> [total |-> 0, elements |-> << >>] ]

CorsMethods == { "GET", "POST", "PUT", "DELETE", "OPTIONS" }

corsDetails == [m \in CorsMethods |-> [allowed |-> TRUE]]

SweepFallback == [buttons |-> << >>, inputFields |-> << >>, cors |-> EmptyObject]

ThirdPartySuccess ==
    [ totalThirdPartyDomains |-> 1,
      categorySummary |-> [c \in {"cdn"} |-> 1],
      details |-> [d \in {"static-cdn.io"} |->
                     [category |-> "cdn", requestCount |-> 1, types |-> {"script"}]] ]

FormValidationSuccess ==
    [ totalForms |-> 1,
      formsSummary |-> [withValidation |-> 0, withCustomValidation |-> 0,
                        withCsrfProtection |-> 0],
      details |-> << [id |-> "f", fields |-> << >>, hasSubmitButton |-> TRUE,
                      hasCsrfToken |-> FALSE] >> ]

PWASuccess ==
    [ features |-> [manifest |-> [exists |-> FALSE], serviceWorker |-> [registered |-> TRUE],
                    offlineCapable |-> FALSE],
      score |-> 20,
      recommendations |-> << [priority |-> "High",
                              message |-> "Add a Web App Manifest to enable PWA features"] >> ]

BacklinksSuccess == [totalChecked |-> 1, brokenLinks |-> << >>]

BacklinksFallback == [totalChecked |-> 0, brokenLinks |-> << >>]

(* What the probe's catch block returns.                                   *)
Fallback(p) ==
    CASE p = "performance" -> PerformanceFallback
      [] p = "security" -> SecurityFallback
      [] p = "accessibility" -> AccessibilityFallback
      [] p = "stressTest" -> SweepFallback
      [] p = "backlinks" -> BacklinksFallback
      [] OTHER -> Null

(* What the probe returns at the end of its try block (the sweep's value   *)
(* is built from its element records, see SweepResult).                    *)
Success(p) ==
    CASE p = "performance" -> processLighthouseResults
      [] p = "security" -> SecuritySuccess
      [] p = "accessibility" -> AccessibilitySuccess
      [] p = "thirdPartyServices" -> ThirdPartySuccess
      [] p = "formValidation" -> FormValidationSuccess
      [] p = "pwaReadiness" -> PWASuccess
      [] p = "backlinks" -> BacklinksSuccess


(* The object literal generateFullReport builds from the eight results.    *)
MakeReportNoBacklinks(res) ==
    [ url |-> Url,
      timestamp |-> "toISOString",
      performance |-> res["performance"],
      security |-> res["security"],
      stressTest |-> res["stressTest"],
      accessibility |-> res["accessibility"],
      additionalTests |->
          [ title |-> "Additional Test Report",
            details |-> [ formValidation |-> res["formValidation"],
                          pwaReadiness |-> res["pwaReadiness"],
                          thirdPartyServices |-> res["thirdPartyServices"] ] ] ]

MakeReport(res) ==
    [ url |-> Url,
      timestamp |-> "toISOString",
      performance |-> res["performance"],
      security |-> res["security"],
      stressTest |-> res["stressTest"],
      accessibility |-> res["accessibility"],
      additionalTests |->
          [ title |-> "Additional Test Report",
            details |-> [ formValidation |-> res["formValidation"],
                          pwaReadiness |-> res["pwaReadiness"],
                          thirdPartyServices |-> res["thirdPartyServices"],
                          backlinks |-> res["backlinks"] ] ] ]

(* _calculateOverallScore: Math.round(0.4 * performance score + 0.3 *      *)
(* security score), on whole-number scores.  Its only call, in the report  *)
(* literal, is commented out.                                              *)
calculateOverallScore(performance, security) ==
    (4 * performance.performance.score + 3 * security.score + 5) \div 10

(* The console summary reads report.performance.performance.score,         *)
(* report.security.score and report.accessibility.headings.total; reading  *)
(* a property of null or undefined throws a TypeError.                     *)
HasNoProperties(v) == v = Null \/ v = Unset

SummaryThrowsReadsPwaScore(rep) ==
    \/ HasNoProperties(rep.performance)
    \/ HasNoProperties(rep.security)
    \/ HasNoProperties(rep.accessibility)
    \/ HasNoProperties(rep.additionalTests.details.pwaReadiness)

SummaryThrows(rep) ==
    \/ HasNoProperties(rep.performance)
    \/ "performance" \notin DOMAIN rep.performance
    \/ HasNoProperties(rep.security)
    \/ HasNoProperties(rep.accessibility)
    \/ "headings" \notin DOMAIN rep.accessibility

(* ------------------------------ chunkArray ----------------------------- *)
Min(a, b) == IF a < b THEN a ELSE b

(* array.slice(begin, end) for 0 <= begin <= end, indices zero-based.      *)
slice(array, begin, end) == SubSeq(array, begin + 1, Min(end, Len(array)))

RECURSIVE chunkLoop(_, _, _)
chunkLoop(array, size, i) ==
    IF i < Len(array)
        THEN << slice(array, i, i + size) >> \o chunkLoop(array, size, i + size)
        ELSE << >>

RECURSIVE chunkLoopDropTail(_, _, _)
chunkLoopDropTail(array, size, i) ==
    IF i + size <= Len(array)
        THEN << slice(array, i, i + size) >> \o chunkLoopDropTail(array, size, i + size)
        ELSE << >>

chunkArrayDropTail(array, size) == chunkLoopDropTail(array, size, 0)

chunkArray(array, size) == chunkLoop(array, size, 0)

(* --------------------- the per-element callbacks ----------------------- *)
(* The async callbacks of buttons.map and inputFields.map: what they leave *)
(* in the element's record and how their promise settles, given whether    *)
(* the page.evaluate they await resolved.                                  *)
clickCallbackNoCatch(button, ok) ==
    IF ok
        THEN [record |-> [button EXCEPT !.success = TRUE], promise |-> "fulfilled"]
        ELSE [record |-> button, promise |-> "rejected"]

clickCallback(button, ok) ==
    IF ok
        THEN [record |-> [button EXCEPT !.success = TRUE], promise |-> "fulfilled"]
        ELSE [record |-> [button EXCEPT !.error = ErrorMessage], promise |-> "fulfilled"]

(* Strings whose characters matter are sequences of one-character strings. *)
DigitChar(d) ==
    CASE d = 0 -> "0" [] d = 1 -> "1" [] d = 2 -> "2" [] d = 3 -> "3" [] d = 4 -> "4"
      [] d = 5 -> "5" [] d = 6 -> "6" [] d = 7 -> "7" [] d = 8 -> "8" [] d = 9 -> "9"

(* String(n) for a non-negative integer: its decimal digits.               *)
RECURSIVE NumberToString(_)
NumberToString(n) ==
    IF n < 10 THEN << DigitChar(n) >>
    ELSE NumberToString(n \div 10) \o << DigitChar(n % 10) >>

(* `test value ${i}` *)
TestValueNoIndex(i) == << "t", "e", "s", "t", " ", "v", "a", "l", "u", "e", " " >>

TestValue(i) ==
    << "t", "e", "s", "t", " ", "v", "a", "l", "u", "e", " " >> \o NumberToString(i)

fillCallback(input, i, ok) ==
    IF ok
        THEN [record |-> [input EXCEPT !.valueAfter = TestValue(i), !.success = TRUE],
              promise |-> "fulfilled"]
        ELSE [record |-> [input EXCEPT !.error = ErrorMessage], promise |-> "fulfilled"]

(* ------------------------------- state --------------------------------- *)
VARIABLES
    entry,        \* the method the caller invoked
    concurrency,  \* the concurrency argument of analyzeButtonsAndFields
    status,       \* of the invoked method: running, built, written, returned, thrown
    cur,          \* position of generateFullReport in ProbeOrder
    phase,        \* of the probe at cur: idle, pre, try, finally, threw
    stepIdx,      \* next call of PreTrySteps / TrySteps
    started,      \* the probes called so far, in call order
    live,         \* probes whose browser process is running
    ops,          \* the launch / newPage / close calls of the last started probe, with outcome
    results,      \* per probe: the value it returned to its caller
    pending,      \* the return value held while the finally block runs
    caughtStep,   \* the call whose exception the current probe's catch block caught
    exc,          \* the exception that left the invoked method
    report,       \* the report object
    fileWrites,   \* number of report files written
    buttons,      \* sweep: the button records
    inputFields,  \* sweep: the input records
    btnPromises,  \* sweep: state of buttonClickPromises
    inpPromises,  \* sweep: state of inputPromises
    chunkedButtonPromises,  \* sweep: chunks of positions of buttonClickPromises
    chunkedInputPromises,   \* sweep: chunks of positions of inputPromises
    chunkIdx,     \* sweep: the chunk being awaited, 0 outside the for loops
    dispatched,   \* sweep: the page.evaluate calls issued by the callbacks, in order
    domInputValues  \* sweep: the value of each input element of the page, in document order

(* State of a single probe method called on its own, with the page's       *)
(* answers drawn from bounded sets.                                        *)
VARIABLES
    tpStep,       \* analyzeThirdPartyServices: next call of its try block, 0 when not called
    navigating,   \* analyzeThirdPartyServices: page.goto has started and not settled
    listening,    \* analyzeThirdPartyServices: the 'request' listener is registered
    emitted,      \* the request events the page has emitted, in order
    requests,     \* the elements of the `requests` Set, in insertion order
    tpResult,     \* what analyzeThirdPartyServices returned
    responseHeaders,  \* analyzeSecurity: the security headers of the response with a value
    secFailed,    \* analyzeSecurity: its catch block ran
    secResult,    \* what analyzeSecurity returned
    pwaPc,        \* analyzePWAReadiness: the statement it is at
    pwaFeatures,  \* analyzePWAReadiness: the value of the first page.evaluate
    offlineCapable,   \* analyzePWAReadiness: the local of that name
    offline,      \* whether the page is in offline mode
    pwaLog,       \* the setOfflineMode / close calls made, in order
    pwaResult,    \* what analyzePWAReadiness returned
    blPc,         \* analyzeBacklinks: the statement it is at
    anchors,      \* the a elements of the page, in document order
    links,        \* analyzeBacklinks: the anchors the page.evaluate returned
    fetched,      \* the fetch calls made so far, in order
    outcomes,     \* the outcome of the fetch of each link checked so far
    brokenLinks,  \* analyzeBacklinks: the local of that name
    blResult      \* what analyzeBacklinks returned

(* State of the checks of the navigation timeout, the report file name,    *)
(* two runs of analyzeAccessibility and the loop of chunkArray.            *)
VARIABLES
    optionsTimeout,   \* this.options.timeout of the auditor, in milliseconds
    navSite,      \* the navigation call being waited for
    navPc,        \* of that call: idle, waiting, resolved, rejected
    elapsed,      \* milliseconds since the call was issued
    fnUrl,        \* generateFullReport: its url argument, as characters
    fnNow,        \* the value of new Date().toISOString() at line 361, as characters
    fnFilename,   \* generateFullReport: the local `filename`
    document,     \* the elements of the static page, in document order
    accRun,       \* which call of analyzeAccessibility is running (1 or 2)
    accPc,        \* the statement that call is at
    accReports,   \* what the calls of analyzeAccessibility made so far returned
    accCaught,    \* the calls whose catch block ran
    ckArray,      \* chunkArray: its array argument
    ckSize,       \* chunkArray: its size argument
    ckI,          \* chunkArray: the loop variable i
    ckResults,    \* chunkArray: the local `results`
    ckPc,         \* chunkArray: loop, returned
    ckParity,     \* chunkArray: parity of the number of iterations run
    fvPc,         \* analyzeFormValidation: the statement it is at
    forms,        \* analyzeFormValidation: the local `forms`
    submitTests,  \* what the submit test of each form tested so far did
    fvResult      \* what analyzeFormValidation returned

auditVars ==
    << entry, concurrency, status, cur, phase, stepIdx, started, live, ops, results,
       pending, caughtStep, exc, report, fileWrites, buttons, inputFields,
       btnPromises, inpPromises, chunkedButtonPromises, chunkedInputPromises, chunkIdx,
       dispatched, domInputValues >>

tpVars == << tpStep, navigating, listening, emitted, requests, tpResult >>

secVars == << responseHeaders, secFailed, secResult >>

pwaVars == << pwaPc, pwaFeatures, offlineCapable, offline, pwaLog, pwaResult >>

blVars == << blPc, anchors, links, fetched, outcomes, brokenLinks, blResult >>

navVars == << optionsTimeout, navSite, navPc, elapsed >>

fnVars == << fnUrl, fnNow, fnFilename >>

accVars == << document, accRun, accPc, accReports, accCaught >>

ckVars == << ckArray, ckSize, ckI, ckResults, ckPc, ckParity >>

fvVars == << fvPc, forms, submitTests, fvResult >>

pureVars == << navVars, fnVars, accVars, ckVars, fvVars >>

unitVars == << tpVars, secVars, pwaVars, blVars, pureVars >>

vars == << auditVars, unitVars >>

(* The single-probe variables while the method is not being called.        *)
TpIdle ==
    /\ tpStep = 0 /\ navigating = FALSE /\ listening = FALSE
    /\ emitted = << >> /\ requests = << >> /\ tpResult = Unset

SecIdle == responseHeaders = {} /\ secFailed = FALSE /\ secResult = Unset

PwaIdle ==
    /\ pwaPc = "idle" /\ pwaFeatures = Unset /\ offlineCapable = FALSE /\ offline = FALSE
    /\ pwaLog = << >> /\ pwaResult = Unset

BlIdle ==
    /\ blPc = "idle" /\ anchors = << >> /\ links = << >> /\ fetched = << >>
    /\ outcomes = << >> /\ brokenLinks = << >>
    /\ blResult = Unset

NavIdle == optionsTimeout = 0 /\ navSite = "none" /\ navPc = "idle" /\ elapsed = 0

FnIdle == fnUrl = << >> /\ fnNow = << >> /\ fnFilename = Unset

AccIdle ==
    /\ document = << >> /\ accRun = 0 /\ accPc = "idle" /\ accReports = << >>
    /\ accCaught = {}

CkIdle ==
    /\ ckArray = << >> /\ ckSize = 0 /\ ckI = 0 /\ ckResults = << >> /\ ckPc = "idle"
    /\ ckParity = 0

FvIdle == fvPc = "idle" /\ forms = << >> /\ submitTests = << >> /\ fvResult = Unset

PureIdle == NavIdle /\ FnIdle /\ AccIdle /\ CkIdle /\ FvIdle

sweepVars ==
    << buttons, inputFields, btnPromises, inpPromises, chunkedButtonPromises,
       chunkedInputPromises, chunkIdx, dispatched >>

NoExc == [probe |-> "none", step |-> "none"]

SweepPos == CHOOSE i \in 1..Len(ProbeOrder) : ProbeOrder[i] = "stressTest"

(* The locals of the invoked method before its first statement.            *)
AuditStart ==
    /\ status = "running"
    /\ phase = "idle"
    /\ stepIdx = 1
    /\ started = << >>
    /\ live = {}
    /\ ops = << >>
    /\ results = [p \in Probes |-> Unset]
    /\ pending = Unset
    /\ caughtStep = "none"
    /\ exc = NoExc
    /\ report = Unset
    /\ fileWrites = 0
    /\ buttons = << >>
    /\ inputFields = << >>
    /\ btnPromises = << >>
    /\ inpPromises = << >>
    /\ chunkedButtonPromises = << >>
    /\ chunkedInputPromises = << >>
    /\ chunkIdx = 0
    /\ dispatched = << >>
    /\ domInputValues = << >>

Init ==
    /\ entry \in { "generateFullReport", "analyzeButtonsAndFields" }
    /\ IF entry = "generateFullReport"
          THEN concurrency = DefaultConcurrency /\ cur = 1
          ELSE concurrency \in 1..MaxConcurrency /\ cur = SweepPos
    /\ AuditStart
    /\ TpIdle /\ SecIdle /\ PwaIdle /\ BlIdle /\ PureIdle

Probe == ProbeOrder[cur]

InProbe == status = "running" /\ cur <= Len(ProbeOrder)

TryStepName == TrySteps(Probe)[stepIdx]

BrowserOps == { "launch", "newPage", "close" }

Logged(s, ok) == IF s \in BrowserOps THEN Append(ops, [op |-> s, ok |-> ok]) ELSE ops

Launched(p, s, ok) == IF s = "launch" /\ ok THEN live \cup {p} ELSE live


(* ------------------------- leaving a probe ----------------------------- *)
(* The probe hands `value` to its caller.  generateFullReport goes on to   *)
(* its next await; a direct call of analyzeButtonsAndFields is over.       *)
ProbeReturn(value) ==
    /\ results' = [results EXCEPT ![Probe] = value]
    /\ phase' = "idle"
    /\ stepIdx' = 1
    /\ cur' = cur + 1
    /\ status' = IF entry = "generateFullReport" THEN status ELSE "returned"
    /\ pending' = Unset

(* An exception leaves the probe.  generateFullReport's catch block logs   *)
(* it and rethrows it.                                                     *)
ProbeThrowSwallowed(s) ==
    /\ status' = status
    /\ exc' = [probe |-> Probe, step |-> s]
    /\ phase' = "idle"

ProbeThrow(s) ==
    /\ status' = "thrown"
    /\ exc' = [probe |-> Probe, step |-> s]
    /\ phase' = "threw"

(* The probe's catch block: log, return the fallback.                      *)
CatchKeepsRecords(s) ==
    /\ caughtStep' = s
    /\ pending' = IF Probe = "stressTest"
                     THEN [buttons |-> buttons, inputFields |-> inputFields,
                           cors |-> EmptyObject]
                     ELSE Fallback(Probe)
    /\ phase' = "finally"

Catch(s) ==
    /\ caughtStep' = s
    /\ pending' = Fallback(Probe)
    /\ phase' = "finally"

(* ------------------------------ actions -------------------------------- *)
(* generateFullReport reaches `await this.analyzeX(url)`.                  *)
StartProbe ==
    /\ InProbe /\ phase = "idle"
    /\ started' = Append(started, Probe)
    /\ phase' = IF PreTrySteps(Probe) = << >> THEN "try" ELSE "pre"
    /\ stepIdx' = 1
    /\ caughtStep' = "none"
    /\ ops' = << >>
    /\ UNCHANGED << entry, concurrency, status, cur, live, results, pending, exc,
                    report, fileWrites, sweepVars >>
    /\ UNCHANGED << domInputValues, unitVars >>

(* An awaited call in front of the try block resolves or rejects.          *)
PreStep ==
    /\ InProbe /\ phase = "pre"
    /\ \E ok \in BOOLEAN :
         LET s == PreTrySteps(Probe)[stepIdx] IN
         /\ ops' = Logged(s, ok)
         /\ live' = Launched(Probe, s, ok)
         /\ IF ok
               THEN /\ IF stepIdx < Len(PreTrySteps(Probe))
                          THEN stepIdx' = stepIdx + 1 /\ phase' = phase
                          ELSE stepIdx' = 1 /\ phase' = "try"
                    /\ UNCHANGED << status, exc >>
               ELSE /\ ProbeThrow(s)
                    /\ UNCHANGED stepIdx
    /\ UNCHANGED << entry, concurrency, cur, started, results, pending, caughtStep,
                    report, fileWrites, sweepVars >>
    /\ UNCHANGED << domInputValues, unitVars >>

(* A call inside the try block resolves or rejects.                        *)
TryStep ==
    /\ InProbe /\ phase = "try"
    /\ TryStepName \notin SweepSteps
    /\ \E ok \in BOOLEAN :
         /\ ok \/ TryStepName \in MayThrow
         /\ ops' = Logged(TryStepName, ok)
         /\ live' = Launched(Probe, TryStepName, ok)
         /\ IF ok
               THEN /\ IF stepIdx < Len(TrySteps(Probe))
                          THEN /\ stepIdx' = stepIdx + 1
                               /\ UNCHANGED << phase, pending >>
                          ELSE /\ pending' = Success(Probe)
                               /\ phase' = "finally"
                               /\ UNCHANGED stepIdx
                    /\ UNCHANGED caughtStep
               ELSE /\ Catch(TryStepName)
                    /\ UNCHANGED stepIdx
    /\ UNCHANGED << entry, concurrency, status, cur, started, results, exc,
                    report, fileWrites, sweepVars >>
    /\ UNCHANGED << domInputValues, unitVars >>

SweepAt(s) == InProbe /\ phase = "try" /\ Probe = "stressTest" /\ TryStepName = s

(* page.$$eval('button', ...) *)
EvalButtons ==
    /\ SweepAt("evalButtons")
    /\ \/ /\ \E n \in 0..MaxButtons :
               buttons' = [i \in 1..n |->
                             [index |-> i - 1, text |-> "button", success |-> FALSE,
                              error |-> NoError]]
          /\ stepIdx' = stepIdx + 1
          /\ UNCHANGED << phase, pending, caughtStep >>
       \/ /\ Catch("evalButtons")
          /\ UNCHANGED << buttons, stepIdx >>
    /\ UNCHANGED << entry, concurrency, status, cur, started, live, ops, results, exc,
                    report, fileWrites, inputFields, btnPromises, inpPromises,
                    chunkedButtonPromises, chunkedInputPromises, chunkIdx, dispatched >>
    /\ UNCHANGED << domInputValues, unitVars >>

(* page.$$eval('input', ...) *)
EvalInputs ==
    /\ SweepAt("evalInputs")
    /\ \/ /\ \E n \in 0..MaxInputs :
               /\ inputFields' = [i \in 1..n |->
                                 [index |-> i - 1, type |-> "text",
                                  placeholder |-> "No placeholder", valueBefore |-> "",
                                  valueAfter |-> Null, success |-> FALSE,
                                  error |-> NoError]]
               /\ domInputValues' = [i \in 1..n |-> << >>]
          /\ stepIdx' = stepIdx + 1
          /\ UNCHANGED << phase, pending, caughtStep >>
       \/ /\ Catch("evalInputs")
          /\ UNCHANGED << inputFields, domInputValues, stepIdx >>
    /\ UNCHANGED << entry, concurrency, status, cur, started, live, ops, results, exc,
                    report, fileWrites, buttons, btnPromises, inpPromises,
                    chunkedButtonPromises, chunkedInputPromises, chunkIdx, dispatched >>
    /\ UNCHANGED unitVars

Positions(n) == [i \in 1..n |-> i]

CallsReversed(kind, n) == [i \in 1..n |-> [kind |-> kind, index |-> n - i]]

Calls(kind, n) == [i \in 1..n |-> [kind |-> kind, index |-> i - 1]]

(* buttons.map(async ...) runs every callback up to its first await, which *)
(* issues its page.evaluate; chunkArray then splits the promises and the   *)
(* for loop awaits the first chunk.                                        *)
DispatchClicks ==
    /\ SweepAt("clickButtons") /\ chunkIdx = 0
    /\ btnPromises' = [i \in 1..Len(buttons) |-> "pending"]
    /\ dispatched' = dispatched \o Calls("click", Len(buttons))
    /\ chunkedButtonPromises' = chunkArray(Positions(Len(buttons)), concurrency)
    /\ IF chunkedButtonPromises' = << >>
          THEN chunkIdx' = 0 /\ stepIdx' = stepIdx + 1
          ELSE chunkIdx' = 1 /\ stepIdx' = stepIdx
    /\ UNCHANGED << entry, concurrency, status, cur, phase, started, live, ops, results,
                    pending, caughtStep, exc, report, fileWrites, buttons, inputFields,
                    inpPromises, chunkedInputPromises >>
    /\ UNCHANGED << domInputValues, unitVars >>

(* inputFields.map(async ...), chunkArray, first await.                    *)
DispatchFills ==
    /\ SweepAt("fillInputs") /\ chunkIdx = 0
    /\ inpPromises' = [i \in 1..Len(inputFields) |-> "pending"]
    /\ dispatched' = dispatched \o Calls("fill", Len(inputFields))
    /\ chunkedInputPromises' = chunkArray(Positions(Len(inputFields)), concurrency)
    /\ IF chunkedInputPromises' = << >>
          THEN chunkIdx' = 0 /\ stepIdx' = stepIdx + 1
          ELSE chunkIdx' = 1 /\ stepIdx' = stepIdx
    /\ UNCHANGED << entry, concurrency, status, cur, phase, started, live, ops, results,
                    pending, caughtStep, exc, report, fileWrites, buttons, inputFields,
                    btnPromises, chunkedButtonPromises >>
    /\ UNCHANGED << domInputValues, unitVars >>

(* The page.evaluate of one click callback settles and the callback runs   *)
(* to its end.                                                             *)
SettleClick ==
    /\ \E i \in 1..Len(btnPromises), ok \in BOOLEAN :
         /\ btnPromises[i] = "pending"
         /\ LET out == clickCallback(buttons[i], ok) IN
            /\ buttons' = [buttons EXCEPT ![i] = out.record]
            /\ btnPromises' = [btnPromises EXCEPT ![i] = out.promise]
    /\ UNCHANGED << entry, concurrency, status, cur, phase, stepIdx, started, live, ops,
                    results, pending, caughtStep, exc, report, fileWrites, inputFields,
                    inpPromises, chunkedButtonPromises, chunkedInputPromises, chunkIdx,
                    dispatched >>
    /\ UNCHANGED << domInputValues, unitVars >>

(* The page.evaluate of one fill callback settles.                         *)
SettleFill ==
    /\ \E i \in 1..Len(inpPromises), ok \in BOOLEAN :
         /\ inpPromises[i] = "pending"
         /\ LET out == fillCallback(inputFields[i], i - 1, ok) IN
            /\ inputFields' = [inputFields EXCEPT ![i] = out.record]
            /\ domInputValues' =
                  IF ok THEN [domInputValues EXCEPT ![inputFields[i].index + 1] = TestValue(i - 1)]
                        ELSE domInputValues
            /\ inpPromises' = [inpPromises EXCEPT ![i] = out.promise]
    /\ UNCHANGED << entry, concurrency, status, cur, phase, stepIdx, started, live, ops,
                    results, pending, caughtStep, exc, report, fileWrites, buttons,
                    btnPromises, chunkedButtonPromises, chunkedInputPromises, chunkIdx,
                    dispatched >>
    /\ UNCHANGED unitVars

Elems(seq) == { seq[i] : i \in 1..Len(seq) }

(* `await Promise.all(chunk)` completes: it rejects as soon as one promise *)
(* of the chunk has rejected and resolves once all have fulfilled.         *)
AwaitChunk ==
    /\ InProbe /\ phase = "try" /\ Probe = "stressTest"
    /\ TryStepName \in { "clickButtons", "fillInputs" }
    /\ chunkIdx >= 1
    /\ LET proms == IF TryStepName = "clickButtons" THEN btnPromises ELSE inpPromises
           chunks == IF TryStepName = "clickButtons"
                        THEN chunkedButtonPromises ELSE chunkedInputPromises
           chunk == Elems(chunks[chunkIdx])
       IN  IF \E j \in chunk : proms[j] = "rejected"
              THEN /\ Catch(TryStepName)
                   /\ chunkIdx' = 0
                   /\ UNCHANGED stepIdx
              ELSE /\ \A j \in chunk : proms[j] = "fulfilled"
                   /\ IF chunkIdx < Len(chunks)
                         THEN chunkIdx' = chunkIdx + 1 /\ stepIdx' = stepIdx
                         ELSE chunkIdx' = 0 /\ stepIdx' = stepIdx + 1
                   /\ UNCHANGED << phase, pending, caughtStep >>
    /\ UNCHANGED << entry, concurrency, status, cur, started, live, ops, results, exc,
                    report, fileWrites, buttons, inputFields, btnPromises, inpPromises,
                    chunkedButtonPromises, chunkedInputPromises, dispatched >>
    /\ UNCHANGED << domInputValues, unitVars >>

SweepResultEmptyIsFailure ==
    IF buttons = << >> /\ inputFields = << >>
       THEN SweepFallback
       ELSE [buttons |-> buttons, inputFields |-> inputFields, cors |-> corsDetails]

SweepResult == [buttons |-> buttons, inputFields |-> inputFields, cors |-> corsDetails]

(* The CORS page.evaluate and the return statement after it.               *)
EvalCors ==
    /\ SweepAt("evalCors")
    /\ \/ /\ pending' = SweepResult
          /\ phase' = "finally"
          /\ UNCHANGED caughtStep
       \/ Catch("evalCors")
    /\ UNCHANGED << entry, concurrency, status, cur, stepIdx, started, live, ops, results,
                    exc, report, fileWrites, sweepVars >>
    /\ UNCHANGED << domInputValues, unitVars >>

(* Is there a close()/kill() to run in the finally block?                  *)
CloseGuard == NeedsClose(Probe) /\ (Probe = "performance" => Probe \in live)

(* finally { await browser.close() }: the pending return value is handed   *)
(* over when close resolves; when it rejects, its exception replaces it.   *)
FinallyClose ==
    /\ InProbe /\ phase = "finally" /\ CloseGuard
    /\ \E ok \in BOOLEAN :
         /\ ops' = Logged("close", ok)
         /\ IF ok
               THEN /\ live' = live \ {Probe}
                    /\ ProbeReturn(pending)
                    /\ UNCHANGED exc
               ELSE /\ ProbeThrow("close")
                    /\ UNCHANGED << live, results, stepIdx, cur, pending >>
    /\ UNCHANGED << entry, concurrency, started, caughtStep, report, fileWrites,
                    sweepVars >>
    /\ UNCHANGED << domInputValues, unitVars >>

(* No browser to close: analyzeSecurity, or analyzePerformance whose       *)
(* `chrome` is still undefined.                                            *)
FinallySkip ==
    /\ InProbe /\ phase = "finally" /\ ~CloseGuard
    /\ ProbeReturn(pending)
    /\ UNCHANGED << entry, concurrency, started, live, ops, caughtStep, exc, report,
                    fileWrites, sweepVars >>
    /\ UNCHANGED << domInputValues, unitVars >>

(* const report = { ... } *)
BuildReport ==
    /\ entry = "generateFullReport" /\ status = "running" /\ cur > Len(ProbeOrder)
    /\ report' = MakeReport(results)
    /\ status' = "built"
    /\ UNCHANGED << entry, concurrency, cur, phase, stepIdx, started, live, ops, results,
                    pending, caughtStep, exc, fileWrites, sweepVars >>
    /\ UNCHANGED << domInputValues, unitVars >>

(* fs.writeFileSync(reportPath, JSON.stringify(report, null, 2)): the file *)
(* is written, or the call throws and there is no file.                    *)
WriteReport ==
    /\ status = "built"
    /\ \E ok \in BOOLEAN :
         IF ok
            THEN /\ fileWrites' = fileWrites + 1
                 /\ status' = "written"
                 /\ UNCHANGED exc
            ELSE /\ status' = "thrown"
                 /\ exc' = [probe |-> "generateFullReport", step |-> "writeFileSync"]
                 /\ UNCHANGED fileWrites
    /\ UNCHANGED << entry, concurrency, cur, phase, stepIdx, started, live, ops, results,
                    pending, caughtStep, report, sweepVars >>
    /\ UNCHANGED << domInputValues, unitVars >>

(* The console summary and `return report`.                                *)
PrintSummary ==
    /\ status = "written"
    /\ IF SummaryThrows(report)
          THEN /\ status' = "thrown"
               /\ exc' = [probe |-> "generateFullReport", step |-> "summary"]
          ELSE /\ status' = "returned"
               /\ UNCHANGED exc
    /\ UNCHANGED << entry, concurrency, cur, phase, stepIdx, started, live, ops, results,
                    pending, caughtStep, report, fileWrites, sweepVars >>
    /\ UNCHANGED << domInputValues, unitVars >>

Next ==
    \/ StartProbe
    \/ PreStep
    \/ TryStep
    \/ EvalButtons
    \/ EvalInputs
    \/ DispatchClicks
    \/ DispatchFills
    \/ SettleClick
    \/ SettleFill
    \/ AwaitChunk
    \/ EvalCors
    \/ FinallyClose
    \/ FinallySkip
    \/ BuildReport
    \/ WriteReport
    \/ PrintSummary

Spec == Init /\ [][Next]_vars


(* =================== analyzeThirdPartyServices alone =================== *)
(* Host names and the fragments they are searched for, as characters.      *)
MaxRequests == 3

HostExampleCom == << "e", "x", "a", "m", "p", "l", "e", ".", "c", "o", "m" >>

HostAdsExampleNet == << "a", "d", "s", ".", "e", "x", "a", "m", "p", "l", "e", ".", "n", "e", "t" >>

HostStaticCdnIo == << "s", "t", "a", "t", "i", "c", "-", "c", "d", "n", ".", "i", "o" >>

HostGoogleCdnCom == << "g", "o", "o", "g", "l", "e", "c", "d", "n", ".", "c", "o", "m" >>

HostFbAdsNet == << "f", "b", "a", "d", "s", ".", "n", "e", "t" >>

HostPlainOrg == << "p", "l", "a", "i", "n", ".", "o", "r", "g" >>

Hosts ==
    { HostExampleCom, HostAdsExampleNet, HostStaticCdnIo, HostGoogleCdnCom, HostFbAdsNet,
      HostPlainOrg }

ResourceTypes == { "script", "image" }

MakeUrl(host) == [protocol |-> "https:", hostname |-> host, pathname |-> "/"]

(* new URL(u).hostname *)
hostname(u) == u.hostname

TargetUrl == MakeUrl(HostExampleCom)

(* The request events a page can emit: request.url(), resourceType(),      *)
(* method().                                                               *)
RequestEvents == [url : { MakeUrl(h) : h \in Hosts }, type : ResourceTypes, method : {"GET"}]

(* String.prototype.includes for a non-empty fragment.                     *)
includes(str, frag) ==
    \E i \in 1..(Len(str) - Len(frag) + 1) : SubSeq(str, i, i + Len(frag) - 1) = frag

FragGoogle == << "g", "o", "o", "g", "l", "e" >>

FragFacebook == << "f", "a", "c", "e", "b", "o", "o", "k" >>

FragFb == << "f", "b" >>

FragAds == << "a", "d", "s" >>

FragDoubleclick == << "d", "o", "u", "b", "l", "e", "c", "l", "i", "c", "k" >>

FragCdn == << "c", "d", "n" >>

(* The four `if` statements that assign `category`, one after another.     *)
categorizeWithoutAds(domain) ==
    LET c0 == "unknown"
        c1 == IF includes(domain, FragGoogle) THEN "analytics" ELSE c0
        c2 == IF includes(domain, FragFacebook) \/ includes(domain, FragFb)
                 THEN "social" ELSE c1
        c3 == IF includes(domain, FragDoubleclick) THEN "advertising" ELSE c2
        c4 == IF includes(domain, FragCdn) THEN "cdn" ELSE c3
    IN  c4

categorize(domain) ==
    LET c0 == "unknown"
        c1 == IF includes(domain, FragGoogle) THEN "analytics" ELSE c0
        c2 == IF includes(domain, FragFacebook) \/ includes(domain, FragFb)
                 THEN "social" ELSE c1
        c3 == IF includes(domain, FragAds) \/ includes(domain, FragDoubleclick)
                 THEN "advertising" ELSE c2
        c4 == IF includes(domain, FragCdn) THEN "cdn" ELSE c3
    IN  c4

(* Array.from(requests).reduce(..., {}) *)
RECURSIVE reduceRequests(_, _)
reduceRequests(reqs, acc) ==
    IF reqs = << >> THEN acc
    ELSE LET request == Head(reqs)
             domain == hostname(request.url)
             mainDomain == hostname(TargetUrl)
         IN  IF domain # mainDomain
                THEN LET old == IF domain \in DOMAIN acc
                                   THEN acc[domain]
                                   ELSE [category |-> categorize(domain), requestCount |-> 0,
                                         types |-> {}]
                         new == [old EXCEPT !.requestCount = @ + 1,
                                            !.types = @ \cup { request.type }]
                     IN  reduceRequests(Tail(reqs),
                             [d \in DOMAIN acc \cup {domain} |->
                                 IF d = domain THEN new ELSE acc[d]])
                ELSE reduceRequests(Tail(reqs), acc)

(* The return statement with Object.keys(thirdPartyServices).length read   *)
(* as the number of categories.                                            *)
thirdPartyResultCountsCategories(reqs) ==
    LET thirdPartyServices == reduceRequests(reqs, EmptyObject)
        categories == { thirdPartyServices[d].category : d \in DOMAIN thirdPartyServices }
    IN  [ totalThirdPartyDomains |-> Cardinality(categories),
          categorySummary |->
              [c \in categories |->
                  Cardinality({ d \in DOMAIN thirdPartyServices :
                                   thirdPartyServices[d].category = c })],
          details |-> thirdPartyServices ]

(* The object analyzeThirdPartyServices returns from its try block.        *)
thirdPartyResult(reqs) ==
    LET thirdPartyServices == reduceRequests(reqs, EmptyObject)
        categories == { thirdPartyServices[d].category : d \in DOMAIN thirdPartyServices }
    IN  [ totalThirdPartyDomains |-> Cardinality(DOMAIN thirdPartyServices),
          categorySummary |->
              [c \in categories |->
                  Cardinality({ d \in DOMAIN thirdPartyServices :
                                   thirdPartyServices[d].category = c })],
          details |-> thirdPartyServices ]

(* requests.add({...}): the literal is a new object each time, and a Set   *)
(* compares objects by identity, so every add grows the Set.               *)
setAddByValue(set, obj) ==
    IF \E i \in 1..Len(set) : set[i] = obj THEN set ELSE Append(set, obj)

setAdd(set, obj) == Append(set, obj)

AuditNotRunning(method) ==
    /\ entry = method
    /\ concurrency = DefaultConcurrency
    /\ cur = 1
    /\ AuditStart

TpInit ==
    /\ AuditNotRunning("analyzeThirdPartyServices")
    /\ tpStep = 1 /\ navigating = FALSE /\ listening = FALSE
    /\ emitted = << >> /\ requests = << >> /\ tpResult = Unset
    /\ SecIdle /\ PwaIdle /\ BlIdle /\ PureIdle

TpStepName ==
    IF tpStep \in 1..Len(TrySteps("thirdPartyServices"))
        THEN TrySteps("thirdPartyServices")[tpStep] ELSE "done"

TpDone == Len(TrySteps("thirdPartyServices")) + 1

(* catch (error) { ...; return null; } *)
TpCatch == tpResult' = Null /\ tpStep' = TpDone

(* const page = await browser.newPage() *)
TpNewPage ==
    /\ TpStepName = "newPage"
    /\ \E ok \in BOOLEAN :
         IF ok THEN tpStep' = tpStep + 1 /\ UNCHANGED tpResult ELSE TpCatch
    /\ UNCHANGED << navigating, listening, emitted, requests >>
    /\ UNCHANGED << auditVars, secVars, pwaVars, blVars, pureVars >>

(* page.on('request', ...) *)
TpOnRequest ==
    /\ TpStepName = "onRequest"
    /\ listening' = TRUE
    /\ tpStep' = tpStep + 1
    /\ UNCHANGED << navigating, emitted, requests, tpResult >>
    /\ UNCHANGED << auditVars, secVars, pwaVars, blVars, pureVars >>

(* page.goto(url, ...) is called; the function is suspended at the await.  *)
TpGotoStart ==
    /\ TpStepName = "goto" /\ ~navigating
    /\ navigating' = TRUE
    /\ UNCHANGED << tpStep, listening, emitted, requests, tpResult >>
    /\ UNCHANGED << auditVars, secVars, pwaVars, blVars, pureVars >>

(* The page emits a request event while it loads; a registered listener    *)
(* adds it to the Set.                                                     *)
TpRequestEvent ==
    /\ navigating /\ Len(emitted) < MaxRequests
    /\ \E e \in RequestEvents :
         /\ emitted' = Append(emitted, e)
         /\ requests' = IF listening THEN setAdd(requests, e) ELSE requests
    /\ UNCHANGED << tpStep, navigating, listening, tpResult >>
    /\ UNCHANGED << auditVars, secVars, pwaVars, blVars, pureVars >>

(* The navigation settles.                                                 *)
TpGotoEnd ==
    /\ TpStepName = "goto" /\ navigating
    /\ navigating' = FALSE
    /\ \E ok \in BOOLEAN :
         IF ok THEN tpStep' = tpStep + 1 /\ UNCHANGED tpResult ELSE TpCatch
    /\ UNCHANGED << listening, emitted, requests >>
    /\ UNCHANGED << auditVars, secVars, pwaVars, blVars, pureVars >>

(* The reduce over the Set and the return statement.                       *)
TpReduce ==
    /\ TpStepName = "reduceRequests"
    /\ tpResult' = thirdPartyResult(requests)
    /\ tpStep' = TpDone
    /\ UNCHANGED << navigating, listening, emitted, requests >>
    /\ UNCHANGED << auditVars, secVars, pwaVars, blVars, pureVars >>

TpNext ==
    \/ TpNewPage
    \/ TpOnRequest
    \/ TpGotoStart
    \/ TpRequestEvent
    \/ TpGotoEnd
    \/ TpReduce

ThirdPartySpec == TpInit /\ [][TpNext]_vars

(* ========================= analyzeSecurity alone ======================= *)
(* The securityHeaders literal: a header maps to its value when the        *)
(* response carries one (TRUE) and to null otherwise (FALSE).              *)
buildSecurityHeaders(present) == [h \in SecurityHeaderNames |-> h \in present]

(* The object analyzeSecurity returns from its try block.                  *)
analyzeSecurityResult(present) ==
    [ headers |-> buildSecurityHeaders(present),
      score |-> calculateSecurityScore(buildSecurityHeaders(present)),
      recommendations |-> generateSecurityRecommendations(buildSecurityHeaders(present)) ]

SecInit ==
    /\ AuditNotRunning("analyzeSecurity")
    /\ responseHeaders \in SUBSET SecurityHeaderNames
    /\ secFailed = FALSE
    /\ secResult = Unset
    /\ TpIdle /\ PwaIdle /\ BlIdle /\ PureIdle

(* axios.get resolves with the response, or rejects and the catch block    *)
(* returns the fallback.                                                   *)
SecAxiosGet ==
    /\ secResult = Unset
    /\ \E ok \in BOOLEAN :
         /\ secFailed' = ~ok
         /\ secResult' = IF ok THEN analyzeSecurityResult(responseHeaders)
                               ELSE SecurityFallback
    /\ UNCHANGED responseHeaders
    /\ UNCHANGED << auditVars, tpVars, pwaVars, blVars, pureVars >>

SecNext ==
    \/ SecAxiosGet

SecuritySpec == SecInit /\ [][SecNext]_vars

(* ====================== analyzePWAReadiness alone ====================== *)
(* The values the first page.evaluate can return.                          *)
PwaFeatureValues ==
    [ manifest : [exists : BOOLEAN],
      serviceWorker : [registered : BOOLEAN],
      icons : [favicon : BOOLEAN, appleTouchIcon : BOOLEAN, maskIcon : BOOLEAN],
      meta : [viewport : BOOLEAN, themeColor : BOOLEAN, description : BOOLEAN] ]

Some(rec) == \E k \in DOMAIN rec : rec[k]

calculatePWAScore(features, offlineOk) ==
    (IF features.manifest.exists THEN 20 ELSE 0)
    + (IF features.serviceWorker.registered THEN 20 ELSE 0)
    + (IF Some(features.icons) THEN 15 ELSE 0)
    + (IF Some(features.meta) THEN 15 ELSE 0)
    + (IF offlineOk THEN 30 ELSE 0)

generatePWARecommendations(features) ==
    (IF ~features.manifest.exists
        THEN << [priority |-> "High",
                 message |-> "Add a Web App Manifest to enable PWA features"] >>
        ELSE << >>)
    \o
    (IF ~features.serviceWorker.registered
        THEN << [priority |-> "High",
                 message |-> "Implement a Service Worker for offline capabilities"] >>
        ELSE << >>)
    \o
    (IF ~features.meta.viewport
        THEN << [priority |-> "Medium",
                 message |-> "Add a viewport meta tag for better mobile experience"] >>
        ELSE << >>)

(* The object analyzePWAReadiness returns from its try block.              *)
pwaReadinessResult(features, offlineOk) ==
    [ features |-> [ manifest |-> features.manifest,
                     serviceWorker |-> features.serviceWorker,
                     icons |-> features.icons,
                     meta |-> features.meta,
                     offlineCapable |-> offlineOk ],
      score |-> calculatePWAScore(features, offlineOk),
      recommendations |-> generatePWARecommendations(features) ]

(* Where control goes when a call of the inner try block throws: the inner *)
(* catch logs a warning and the inner finally runs.                        *)
AfterOfflineTestFailureSkipsRestore == "return"

AfterOfflineTestFailure == "setOfflineModeFalse"

PwaInit ==
    /\ AuditNotRunning("analyzePWAReadiness")
    /\ pwaPc = "launch" /\ pwaFeatures = Unset /\ offlineCapable = FALSE /\ offline = FALSE
    /\ pwaLog = << >> /\ pwaResult = Unset
    /\ TpIdle /\ SecIdle /\ BlIdle /\ PureIdle

PwaCalled(call, ok) == pwaLog' = Append(pwaLog, [call |-> call, ok |-> ok])

(* puppeteer.launch, in front of the try block.                            *)
PwaLaunch ==
    /\ pwaPc = "launch"
    /\ \E ok \in BOOLEAN :
         /\ PwaCalled("launch", ok)
         /\ pwaPc' = IF ok THEN "newPage" ELSE "threw"
    /\ UNCHANGED << pwaFeatures, offlineCapable, offline, pwaResult >>
    /\ UNCHANGED << auditVars, tpVars, secVars, blVars, pureVars >>

(* browser.newPage, page.goto: on a rejection the outer catch returns null *)
(* and the outer finally closes the browser.                               *)
PwaOpenPage ==
    /\ pwaPc \in { "newPage", "goto" }
    /\ \E ok \in BOOLEAN :
         IF ok
            THEN /\ pwaPc' = IF pwaPc = "newPage" THEN "goto" ELSE "evaluate"
                 /\ UNCHANGED pwaResult
            ELSE /\ pwaPc' = "close"
                 /\ pwaResult' = Null
    /\ UNCHANGED << pwaFeatures, offlineCapable, offline, pwaLog >>
    /\ UNCHANGED << auditVars, tpVars, secVars, blVars, pureVars >>

(* const pwaFeatures = await page.evaluate(...) *)
PwaEvaluate ==
    /\ pwaPc = "evaluate"
    /\ \/ /\ pwaFeatures' \in PwaFeatureValues
          /\ pwaPc' = "setOfflineModeTrue"
          /\ UNCHANGED pwaResult
       \/ /\ pwaPc' = "close"
          /\ pwaResult' = Null
          /\ UNCHANGED pwaFeatures
    /\ UNCHANGED << offlineCapable, offline, pwaLog >>
    /\ UNCHANGED << auditVars, tpVars, secVars, blVars, pureVars >>

(* await page.setOfflineMode(true): when it rejects the page may or may    *)
(* not have gone offline.                                                  *)
PwaSetOfflineTrue ==
    /\ pwaPc = "setOfflineModeTrue"
    /\ \E ok \in BOOLEAN :
         /\ PwaCalled("setOfflineMode(true)", ok)
         /\ IF ok
               THEN offline' = TRUE /\ pwaPc' = "reload"
               ELSE offline' \in BOOLEAN /\ pwaPc' = AfterOfflineTestFailure
    /\ UNCHANGED << pwaFeatures, offlineCapable, pwaResult >>
    /\ UNCHANGED << auditVars, tpVars, secVars, blVars, pureVars >>

(* await page.reload(...) *)
PwaReload ==
    /\ pwaPc = "reload"
    /\ \E ok \in BOOLEAN :
         /\ PwaCalled("reload", ok)
         /\ pwaPc' = IF ok THEN "evaluateOffline" ELSE AfterOfflineTestFailure
    /\ UNCHANGED << pwaFeatures, offlineCapable, offline, pwaResult >>
    /\ UNCHANGED << auditVars, tpVars, secVars, blVars, pureVars >>

(* offlineCapable = await page.evaluate(() => document.body.innerHTML.length > 0) *)
PwaEvaluateOffline ==
    /\ pwaPc = "evaluateOffline"
    /\ \/ /\ offlineCapable' \in BOOLEAN
          /\ PwaCalled("evaluateOffline", TRUE)
          /\ pwaPc' = "setOfflineModeFalse"
       \/ /\ UNCHANGED offlineCapable
          /\ PwaCalled("evaluateOffline", FALSE)
          /\ pwaPc' = AfterOfflineTestFailure
    /\ UNCHANGED << pwaFeatures, offline, pwaResult >>
    /\ UNCHANGED << auditVars, tpVars, secVars, blVars, pureVars >>

(* finally { await page.setOfflineMode(false); }: a rejection goes to the  *)
(* outer catch.                                                            *)
PwaSetOfflineFalse ==
    /\ pwaPc = "setOfflineModeFalse"
    /\ \E ok \in BOOLEAN :
         /\ PwaCalled("setOfflineMode(false)", ok)
         /\ IF ok
               THEN /\ offline' = FALSE
                    /\ pwaPc' = "return"
                    /\ UNCHANGED pwaResult
               ELSE /\ pwaPc' = "close"
                    /\ pwaResult' = Null
                    /\ UNCHANGED offline
    /\ UNCHANGED << pwaFeatures, offlineCapable >>
    /\ UNCHANGED << auditVars, tpVars, secVars, blVars, pureVars >>

(* The score, the recommendations and the return statement.                *)
PwaReturn ==
    /\ pwaPc = "return"
    /\ pwaResult' = pwaReadinessResult(pwaFeatures, offlineCapable)
    /\ pwaPc' = "close"
    /\ UNCHANGED << pwaFeatures, offlineCapable, offline, pwaLog >>
    /\ UNCHANGED << auditVars, tpVars, secVars, blVars, pureVars >>

(* finally { await browser.close(); }: the value held in pwaResult reaches *)
(* the caller when close resolves.                                         *)
PwaClose ==
    /\ pwaPc = "close"
    /\ \E ok \in BOOLEAN :
         /\ PwaCalled("close", ok)
         /\ IF ok
               THEN pwaPc' = "done" /\ UNCHANGED pwaResult
               ELSE pwaPc' = "threw" /\ pwaResult' = Unset
    /\ UNCHANGED << pwaFeatures, offlineCapable, offline >>
    /\ UNCHANGED << auditVars, tpVars, secVars, blVars, pureVars >>

PwaNext ==
    \/ PwaLaunch
    \/ PwaOpenPage
    \/ PwaEvaluate
    \/ PwaSetOfflineTrue
    \/ PwaReload
    \/ PwaEvaluateOffline
    \/ PwaSetOfflineFalse
    \/ PwaReturn
    \/ PwaClose

PwaSpec == PwaInit /\ [][PwaNext]_vars

(* ======================== analyzeBacklinks alone ======================= *)
(* The a elements of a page: at most MaxLinks of them, two of which may   *)
(* carry the same href.  link.href is "" for an a element without href.    *)
MaxLinks == 3

LinkHrefs ==
    { << "h", "t", "t", "p", "s", ":", "/", "/", "a", ".", "e", "x", "a", "m", "p", "l", "e", "/" >>,
      << "h", "t", "t", "p", "s", ":", "/", "/", "b", ".", "e", "x", "a", "m", "p", "l", "e", "/" >> }

AnchorHrefs ==
    LinkHrefs \cup { << >>, << "j", "a", "v", "a", "s", "c", "r", "i", "p", "t", ":", "v", "o", "i", "d", "(", "0", ")" >> }

LinkValues == [ href : LinkHrefs, text : { "anchor" } ]

AnchorValues == [ href : AnchorHrefs, text : { "anchor" } ]

LinkLists == UNION { [1..n -> LinkValues] : n \in 0..MaxLinks }

AnchorLists == UNION { [1..n -> AnchorValues] : n \in 0..MaxLinks }

startsWith(str, prefix) ==
    Len(prefix) <= Len(str) /\ SubSeq(str, 1, Len(prefix)) = prefix

(* .filter(link => link.href && !link.href.startsWith('javascript:') &&    *)
(*                 !link.href.startsWith('#'))                             *)
keepsLink(link) ==
    /\ link.href # << >>
    /\ ~startsWith(link.href, << "j", "a", "v", "a", "s", "c", "r", "i", "p", "t", ":" >>)
    /\ ~startsWith(link.href, << "#" >>)

filterLinksKeepsAll(list) == list

filterLinks(list) == SelectSeq(list, keepsLink)

(* What fetch(link.href, { method: 'HEAD' }) can do: resolve with a        *)
(* response of some status, or reject.                                     *)
ResponseStatuses == { 200, 399, 400, 404 }

FetchOutcomes ==
    [ kind : { "response" }, status : ResponseStatuses ]
    \cup [ kind : { "rejected" }, message : { "fetch failed" } ]

(* A statusCode is a number or the string 'Connection failed'.             *)
NumberValue(n) == [number |-> n]

StringValue(str) == [string |-> str]

(* if (statusCode >= 400) *)
isBrokenStatusAbove(statusCode) == statusCode > 400

isBrokenStatus(statusCode) == statusCode >= 400

(* One turn of the for loop body: what it appends to brokenLinks.          *)
checkLink(link, outcome) ==
    IF outcome.kind = "response"
       THEN IF isBrokenStatus(outcome.status)
               THEN << [ url |-> link.href,
                         statusCode |-> NumberValue(outcome.status),
                         anchorText |-> link.text ] >>
               ELSE << >>
       ELSE << [ url |-> link.href,
                 statusCode |-> StringValue("Connection failed"),
                 anchorText |-> link.text,
                 error |-> outcome.message ] >>

BacklinksFailure == [ totalChecked |-> 0, brokenLinks |-> << >> ]

BlInit ==
    /\ AuditNotRunning("analyzeBacklinks")
    /\ blPc = "launch" /\ anchors = << >> /\ links = << >> /\ fetched = << >>
    /\ outcomes = << >> /\ brokenLinks = << >>
    /\ blResult = Unset
    /\ TpIdle /\ SecIdle /\ PwaIdle /\ PureIdle

(* puppeteer.launch, in front of the try block.                            *)
BlLaunch ==
    /\ blPc = "launch"
    /\ blPc' \in { "newPage", "threw" }
    /\ UNCHANGED << anchors, links, fetched, outcomes, brokenLinks, blResult >>
    /\ UNCHANGED << auditVars, tpVars, secVars, pwaVars, pureVars >>

(* browser.newPage, page.goto: a rejection is caught by the outer catch.   *)
BlOpenPage ==
    /\ blPc \in { "newPage", "goto" }
    /\ \/ /\ blPc' = IF blPc = "newPage" THEN "goto" ELSE "evaluate"
          /\ UNCHANGED blResult
       \/ /\ blPc' = "close"
          /\ blResult' = BacklinksFailure
    /\ UNCHANGED << anchors, links, fetched, outcomes, brokenLinks >>
    /\ UNCHANGED << auditVars, tpVars, secVars, pwaVars, pureVars >>

(* const links = await page.evaluate(...); const brokenLinks = []; *)
BlEvaluate ==
    /\ blPc = "evaluate"
    /\ \/ /\ anchors' \in AnchorLists
          /\ links' = filterLinks(anchors')
          /\ blPc' = "loop"
          /\ UNCHANGED blResult
       \/ /\ blPc' = "close"
          /\ blResult' = BacklinksFailure
          /\ UNCHANGED << anchors, links >>
    /\ UNCHANGED << fetched, outcomes, brokenLinks >>
    /\ UNCHANGED << auditVars, tpVars, secVars, pwaVars, pureVars >>

(* One iteration of for (const link of links): outcomes records what the   *)
(* fetch did.                                                              *)
BlCheckLink ==
    /\ blPc = "loop"
    /\ Len(outcomes) < Len(links)
    /\ \E outcome \in FetchOutcomes :
         /\ fetched' = Append(fetched, [url |-> links[Len(outcomes) + 1].href,
                                        method |-> "HEAD"])
         /\ outcomes' = Append(outcomes, outcome)
         /\ brokenLinks' = brokenLinks \o checkLink(links[Len(outcomes) + 1], outcome)
    /\ UNCHANGED << blPc, anchors, links, blResult >>
    /\ UNCHANGED << auditVars, tpVars, secVars, pwaVars, pureVars >>

(* return { totalChecked: links.length, brokenLinks } *)
BlReturn ==
    /\ blPc = "loop"
    /\ Len(outcomes) = Len(links)
    /\ blResult' = [ totalChecked |-> Len(links), brokenLinks |-> brokenLinks ]
    /\ blPc' = "close"
    /\ UNCHANGED << anchors, links, fetched, outcomes, brokenLinks >>
    /\ UNCHANGED << auditVars, tpVars, secVars, pwaVars, pureVars >>

(* finally { await browser.close(); } *)
BlClose ==
    /\ blPc = "close"
    /\ \/ blPc' = "done" /\ UNCHANGED blResult
       \/ blPc' = "threw" /\ blResult' = Unset
    /\ UNCHANGED << anchors, links, fetched, outcomes, brokenLinks >>
    /\ UNCHANGED << auditVars, tpVars, secVars, pwaVars, pureVars >>

BlNext ==
    \/ BlLaunch
    \/ BlOpenPage
    \/ BlEvaluate
    \/ BlCheckLink
    \/ BlReturn
    \/ BlClose

BacklinksSpec == BlInit /\ [][BlNext]_vars

(* ================= the timeout of the page navigations ================= *)
(* The constructor's default for options.timeout, in milliseconds.         *)
DefaultTimeout == 30000

(* The values of options.timeout a caller configures.                      *)
ConfiguredTimeouts == { 10000, 20000, DefaultTimeout }

(* The calls that wait for the page to become network-idle.  Each passes   *)
(* { waitUntil: 'networkidle0' } and nothing else.                         *)
NavigationSites ==
    { "analyzeAccessibility.goto", "analyzeBacklinks.goto", "analyzeButtonsAndFields.goto",
      "analyzeThirdPartyServices.goto", "analyzeFormValidation.goto",
      "analyzePWAReadiness.goto", "analyzePWAReadiness.reload" }

(* The navigation timeout the browser library applies to a call that is    *)
(* given none, in milliseconds.                                            *)
LibraryNavigationTimeout == 30000

(* The timeout in force for a navigation call: no call site passes         *)
(* this.options.timeout, so it is the library's.                           *)
timeoutInForce(site, configured) == LibraryNavigationTimeout

(* The moments at which the wait is observed.                              *)
Instants == ConfiguredTimeouts \cup { 0, LibraryNavigationTimeout }

NextInstant(t) == CHOOSE u \in Instants : u > t /\ \A v \in Instants : v > t => u <= v

notNavVars == << auditVars, tpVars, secVars, pwaVars, blVars, fnVars, accVars, ckVars, fvVars >>

(* new WebsiteAuditor({ timeout }) *)
NavInit ==
    /\ AuditNotRunning("constructor")
    /\ optionsTimeout \in ConfiguredTimeouts
    /\ navSite = "none" /\ navPc = "idle" /\ elapsed = 0
    /\ TpIdle /\ SecIdle /\ PwaIdle /\ BlIdle /\ FnIdle /\ AccIdle /\ CkIdle
    /\ FvIdle

(* await page.goto(url, { waitUntil: 'networkidle0' }) or page.reload      *)
NavIssue ==
    /\ navPc = "idle"
    /\ navSite' \in NavigationSites
    /\ navPc' = "waiting"
    /\ elapsed' = 0
    /\ UNCHANGED optionsTimeout
    /\ UNCHANGED notNavVars

(* Time passes while the page is not network-idle.                         *)
NavWait ==
    /\ navPc = "waiting"
    /\ elapsed < timeoutInForce(navSite, optionsTimeout)
    /\ elapsed' = NextInstant(elapsed)
    /\ UNCHANGED << optionsTimeout, navSite, navPc >>
    /\ UNCHANGED notNavVars

(* The page becomes network-idle and the call resolves.                    *)
NavNetworkIdle ==
    /\ navPc = "waiting"
    /\ navPc' = "resolved"
    /\ UNCHANGED << optionsTimeout, navSite, elapsed >>
    /\ UNCHANGED notNavVars

(* The timeout in force expires: the call rejects and the probe's catch    *)
(* block returns the fallback.                                             *)
NavTimeout ==
    /\ navPc = "waiting"
    /\ elapsed >= timeoutInForce(navSite, optionsTimeout)
    /\ navPc' = "rejected"
    /\ UNCHANGED << optionsTimeout, navSite, elapsed >>
    /\ UNCHANGED notNavVars

NavNext ==
    \/ NavIssue
    \/ NavWait
    \/ NavNetworkIdle
    \/ NavTimeout

NavigationSpec == NavInit /\ [][NavNext]_vars

(* ======================== the report file name ========================= *)
(* Strings are sequences of UTF-16 code units; a code unit outside ASCII   *)
(* is written "U+hhhh".                                                    *)
LowerCaseLetters ==
    << "a", "b", "c", "d", "e", "f", "g", "h", "i", "j", "k", "l", "m",
       "n", "o", "p", "q", "r", "s", "t", "u", "v", "w", "x", "y", "z" >>

UpperCaseLetters ==
    << "A", "B", "C", "D", "E", "F", "G", "H", "I", "J", "K", "L", "M",
       "N", "O", "P", "Q", "R", "S", "T", "U", "V", "W", "X", "Y", "Z" >>

DecimalDigits == { "0", "1", "2", "3", "4", "5", "6", "7", "8", "9" }

Range(str) == { str[i] : i \in 1..Len(str) }

(* Does the code unit match /[^a-z0-9]/i ?                                 *)
isNotAlphanumeric(c) ==
    c \notin Range(LowerCaseLetters) \cup Range(UpperCaseLetters) \cup DecimalDigits

(* String.prototype.toLowerCase on one code unit: U+0130 (capital I with   *)
(* dot above) becomes the two code units "i", U+0307.                      *)
lowerCaseOf(c) ==
    IF c \in Range(UpperCaseLetters)
       THEN << LowerCaseLetters[CHOOSE i \in 1..Len(UpperCaseLetters) : UpperCaseLetters[i] = c] >>
       ELSE IF c = "U+0130" THEN << "i", "U+0307" >>
       ELSE IF c = "U+00C9" THEN << "U+00E9" >>
       ELSE << c >>

RECURSIVE toLowerCase(_)
toLowerCase(str) ==
    IF str = << >> THEN << >> ELSE lowerCaseOf(Head(str)) \o toLowerCase(Tail(str))

(* str.replace(/[^a-z0-9]/gi, '_') *)
replaceNotAlphanumeric(str) ==
    [i \in 1..Len(str) |-> IF isNotAlphanumeric(str[i]) THEN "_" ELSE str[i]]

(* str.replace(/[:.]/g, '-') *)
replaceColonsAndDots(str) ==
    [i \in 1..Len(str) |-> IF str[i] \in { ":", "." } THEN "-" ELSE str[i]]

(* _sanitizeFilename(url) *)
sanitizeFilenameLowerCaseFirst(url) == replaceNotAlphanumeric(toLowerCase(url))

sanitizeFilename(url) == toLowerCase(replaceNotAlphanumeric(url))

AuditReportSuffix ==
    << "_", "a", "u", "d", "i", "t", "_", "r", "e", "p", "o", "r", "t", ".", "j", "s", "o", "n" >>

(* `${this._sanitizeFilename(url)}_${timestamp}_audit_report.json`          *)
reportFilename(url, now) ==
    sanitizeFilename(url) \o << "_" >> \o replaceColonsAndDots(now) \o AuditReportSuffix

(* The targets: every string of at most MaxUrlLen of these code units.     *)
MaxUrlLen == 3

UrlCodeUnits == { "h", "T", "7", ":", "/", ".", "_", "U+0130" }

UrlValues == UNION { [1..n -> UrlCodeUnits] : n \in 0..MaxUrlLen }

(* Two values of new Date().toISOString().                                 *)
IsoTimestamps ==
    { << "2", "0", "2", "4", "-", "0", "1", "-", "0", "2", "T", "0", "3", ":", "0", "4", ":", "0", "5", ".", "6", "7", "8", "Z" >>,
      << "2", "0", "2", "6", "-", "1", "1", "-", "0", "5", "T", "2", "3", ":", "5", "9", ":", "5", "9", ".", "0", "0", "0", "Z" >> }

notFnVars == << auditVars, tpVars, secVars, pwaVars, blVars, navVars, accVars, ckVars, fvVars >>

FnInit ==
    /\ AuditNotRunning("generateFullReport")
    /\ fnUrl \in UrlValues
    /\ fnNow \in IsoTimestamps
    /\ fnFilename = Unset
    /\ TpIdle /\ SecIdle /\ PwaIdle /\ BlIdle /\ NavIdle /\ AccIdle /\ CkIdle
    /\ FvIdle

(* const timestamp = ...; const filename = ...; *)
FnBuildFilename ==
    /\ fnFilename = Unset
    /\ fnFilename' = reportFilename(fnUrl, fnNow)
    /\ UNCHANGED << fnUrl, fnNow >>
    /\ UNCHANGED notFnVars

FnNext == FnBuildFilename

FilenameSpec == FnInit /\ [][FnNext]_vars

(* ================== analyzeAccessibility, called twice ================= *)
(* A static page: at most MaxElements elements, in document order.         *)
MaxElements == 3

ElementValues ==
    { [tag |-> "IMG", alt |-> TRUE, inputs |-> 0, labels |-> 0],
      [tag |-> "IMG", alt |-> FALSE, inputs |-> 0, labels |-> 0],
      [tag |-> "H1", alt |-> FALSE, inputs |-> 0, labels |-> 0],
      [tag |-> "H2", alt |-> FALSE, inputs |-> 0, labels |-> 0],
      [tag |-> "NAV", alt |-> FALSE, inputs |-> 0, labels |-> 0],
      [tag |-> "FORM", alt |-> FALSE, inputs |-> 1, labels |-> 1],
      [tag |-> "FORM", alt |-> FALSE, inputs |-> 1, labels |-> 0],
      [tag |-> "P", alt |-> FALSE, inputs |-> 0, labels |-> 0] }

Documents == UNION { [1..n -> ElementValues] : n \in 0..MaxElements }

HeadingTags == { "H1", "H2", "H3", "H4", "H5", "H6" }

LandmarkTags == { "MAIN", "NAV", "HEADER", "FOOTER", "ASIDE", "SECTION", "ARTICLE" }

(* landmark.tagName.toLowerCase() *)
landmarkKey(tag) ==
    CASE tag = "MAIN" -> "main" [] tag = "NAV" -> "nav" [] tag = "HEADER" -> "header"
      [] tag = "FOOTER" -> "footer" [] tag = "ASIDE" -> "aside"
      [] tag = "SECTION" -> "section" [] tag = "ARTICLE" -> "article"

(* document.querySelectorAll(selector): the matching elements in document  *)
(* order.                                                                  *)
querySelectorAll(doc, tags) ==
    LET Matches(e) == e.tag \in tags IN SelectSeq(doc, Matches)

CountWhere(doc, tags, Test(_)) ==
    LET Matches(e) == e.tag \in tags /\ Test(e) IN Len(SelectSeq(doc, Matches))

(* The object `report` the page function starts from.                      *)
startingReportCarriedOver(previous) ==
    IF previous = << >> \/ previous[Len(previous)] = [thrown |-> TRUE]
       THEN [ images |-> [total |-> 0, withAlt |-> 0],
              headings |-> [total |-> 0, structure |-> << >>],
              landmarks |-> [total |-> 0, types |-> EmptyObject],
              forms |-> [total |-> 0, withLabels |-> 0],
              ariaAttributes |-> [total |-> 0, elements |-> << >>] ]
       ELSE previous[Len(previous)]

startingReport(previous) ==
    [ images |-> [total |-> 0, withAlt |-> 0],
      headings |-> [total |-> 0, structure |-> << >>],
      landmarks |-> [total |-> 0, types |-> EmptyObject],
      forms |-> [total |-> 0, withLabels |-> 0],
      ariaAttributes |-> [total |-> 0, elements |-> << >>] ]

(* The four forEach loops of the page function, applied to `report`.       *)
accessibilityReport(doc, report0) ==
    LET HasAlt(e) == e.alt
        Labelled(e) == e.labels >= e.inputs
        Every(e) == TRUE
        headingsFound == querySelectorAll(doc, HeadingTags)
        landmarksFound == querySelectorAll(doc, LandmarkTags)
        keysFound == { landmarkKey(landmarksFound[i].tag) : i \in 1..Len(landmarksFound) }
        Before(k) == IF k \in DOMAIN report0.landmarks.types
                        THEN report0.landmarks.types[k] ELSE 0
        Found(k) == Cardinality({ i \in 1..Len(landmarksFound) :
                                    landmarkKey(landmarksFound[i].tag) = k })
    IN  [ images |->
              [ total |-> report0.images.total + CountWhere(doc, { "IMG" }, Every),
                withAlt |-> report0.images.withAlt + CountWhere(doc, { "IMG" }, HasAlt) ],
          headings |->
              [ total |-> report0.headings.total + Len(headingsFound),
                structure |-> report0.headings.structure
                              \o [i \in 1..Len(headingsFound) |-> headingsFound[i].tag] ],
          landmarks |->
              [ total |-> report0.landmarks.total + Len(landmarksFound),
                types |-> [k \in DOMAIN report0.landmarks.types \cup keysFound |->
                              Before(k) + Found(k)] ],
          forms |->
              [ total |-> report0.forms.total + CountWhere(doc, { "FORM" }, Every),
                withLabels |-> report0.forms.withLabels
                               + CountWhere(doc, { "FORM" }, Labelled) ],
          ariaAttributes |-> report0.ariaAttributes ]

(* What a call that ended with an exception hands to its caller.           *)
Thrown == [thrown |-> TRUE]

notAccVars == << auditVars, tpVars, secVars, pwaVars, blVars, navVars, fnVars, ckVars, fvVars >>

AccInit ==
    /\ AuditNotRunning("analyzeAccessibility")
    /\ document \in Documents
    /\ accRun = 1 /\ accPc = "launch" /\ accReports = << >> /\ accCaught = {}
    /\ TpIdle /\ SecIdle /\ PwaIdle /\ BlIdle /\ NavIdle /\ FnIdle /\ CkIdle
    /\ FvIdle

(* The call is over: the caller makes the second call, if this was the     *)
(* first.                                                                  *)
AccCallOver ==
    IF accRun = 1
       THEN accRun' = 2 /\ accPc' = "launch"
       ELSE accRun' = accRun /\ accPc' = "done"

(* puppeteer.launch, in front of the try block.                            *)
AccLaunch ==
    /\ accPc = "launch"
    /\ \/ /\ accPc' = "newPage"
          /\ UNCHANGED << accRun, accReports >>
       \/ /\ accReports' = Append(accReports, Thrown)
          /\ AccCallOver
    /\ UNCHANGED << document, accCaught >>
    /\ UNCHANGED notAccVars

(* browser.newPage, page.goto: a rejection is caught and the fallback      *)
(* becomes the return value.                                               *)
AccOpenPage ==
    /\ accPc \in { "newPage", "goto" }
    /\ \/ /\ accPc' = IF accPc = "newPage" THEN "goto" ELSE "evaluate"
          /\ UNCHANGED << accReports, accCaught >>
       \/ /\ accReports' = Append(accReports, AccessibilityFallback)
          /\ accCaught' = accCaught \cup { accRun }
          /\ accPc' = "close"
    /\ UNCHANGED << document, accRun >>
    /\ UNCHANGED notAccVars

(* const accessibilityReport = await page.evaluate(...); return it.        *)
AccEvaluate ==
    /\ accPc = "evaluate"
    /\ \/ /\ accReports' =
               Append(accReports, accessibilityReport(document, startingReport(accReports)))
          /\ UNCHANGED accCaught
       \/ /\ accReports' = Append(accReports, AccessibilityFallback)
          /\ accCaught' = accCaught \cup { accRun }
    /\ accPc' = "close"
    /\ UNCHANGED << document, accRun >>
    /\ UNCHANGED notAccVars

(* finally { await browser.close(); }: when close rejects, its exception   *)
(* replaces the return value.                                              *)
AccClose ==
    /\ accPc = "close"
    /\ \/ UNCHANGED accReports
       \/ accReports' = [accReports EXCEPT ![Len(accReports)] = Thrown]
    /\ AccCallOver
    /\ UNCHANGED << document, accCaught >>
    /\ UNCHANGED notAccVars

AccNext ==
    \/ AccLaunch
    \/ AccOpenPage
    \/ AccEvaluate
    \/ AccClose

AccessibilitySpec == AccInit /\ [][AccNext]_vars

(* ========================= the loop of chunkArray ====================== *)
Max(a, b) == IF a > b THEN a ELSE b

(* The index Array.prototype.slice makes of an argument k: counted from    *)
(* the end when negative, clamped to 0..len.                               *)
relativeIndex(k, len) == IF k < 0 THEN Max(len + k, 0) ELSE Min(k, len)

(* array.slice(begin, end) for any integers begin and end.                 *)
arraySlice(array, begin, end) ==
    LET from == relativeIndex(begin, Len(array))
        to == relativeIndex(end, Len(array))
    IN  IF from >= to THEN << >> ELSE SubSeq(array, from + 1, to)

(* The arrays and sizes chunkArray is called with: the promises of up to   *)
(* MaxButtons + MaxInputs elements, and any integer concurrency from       *)
(* -MaxConcurrency to MaxConcurrency.                                      *)
ChunkedArrays == { Positions(n) : n \in 0..(MaxButtons + MaxInputs) }

ChunkSizes == (0 - MaxConcurrency)..MaxConcurrency

(* The values of i and results are followed for this many iterations; a   *)
(* loop with size >= 1 ends within Len(array) of them.  A loop that is     *)
(* still running then has size <= 0: its i never grows again, so its test  *)
(* i < array.length stays true, and it goes on iterating.                  *)
MaxIterations == MaxButtons + MaxInputs + 1

notCkVars == << auditVars, tpVars, secVars, pwaVars, blVars, navVars, fnVars, accVars, fvVars >>

(* const results = []; let i = 0; *)
CkInit ==
    /\ AuditNotRunning("chunkArray")
    /\ ckArray \in ChunkedArrays
    /\ ckSize \in ChunkSizes
    /\ ckI = 0 /\ ckResults = << >> /\ ckPc = "loop" /\ ckParity = 0
    /\ TpIdle /\ SecIdle /\ PwaIdle /\ BlIdle /\ NavIdle /\ FnIdle /\ AccIdle
    /\ FvIdle

(* i < array.length holds: results.push(array.slice(i, i + size)); i += size *)
CkIterate ==
    /\ ckPc = "loop"
    /\ ckI < Len(ckArray)
    /\ IF Len(ckResults) < MaxIterations
          THEN /\ ckResults' = Append(ckResults, arraySlice(ckArray, ckI, ckI + ckSize))
               /\ ckI' = ckI + ckSize
          ELSE UNCHANGED << ckResults, ckI >>
    /\ ckParity' = 1 - ckParity
    /\ UNCHANGED << ckArray, ckSize, ckPc >>
    /\ UNCHANGED notCkVars

(* i < array.length fails: return results *)
CkReturn ==
    /\ ckPc = "loop"
    /\ ~(ckI < Len(ckArray))
    /\ ckPc' = "returned"
    /\ UNCHANGED << ckArray, ckSize, ckI, ckResults, ckParity >>
    /\ UNCHANGED notCkVars

CkNext ==
    \/ CkIterate
    \/ CkReturn

(* The loop keeps running: no step of it is postponed forever.             *)
ChunkLoopSpec == CkInit /\ [][CkNext]_vars /\ WF_vars(CkNext)

(* ====================== analyzeFormValidation alone ==================== *)
(* The fields page.evaluate reports for a form: hasValidation is what the  *)
(* element's attributes say, hasCustomValidation is the literal false.     *)
FieldValue(validated) ==
    [ type |-> "text", required |-> FALSE, hasValidation |-> validated,
      hasCustomValidation |-> FALSE ]

FieldLists ==
    { << >>, << FieldValue(FALSE) >>, << FieldValue(TRUE) >>,
      << FieldValue(FALSE), FieldValue(TRUE) >> }

(* The forms of a page: at most MaxForms of them.                          *)
MaxForms == 2

FormValues ==
    [ id : { "form" }, fields : FieldLists, hasSubmitButton : { TRUE },
      hasCsrfToken : BOOLEAN ]

FormLists == UNION { [1..n -> FormValues] : n \in 0..MaxForms }

(* What the page function of a form's submit test can do: return its       *)
(* hasCustomValidation (true or false), or make page.evaluate reject.      *)
SubmitTestOutcomes == { "true", "false", "rejected" }

(* The record of a form after its submit test: the value page.evaluate     *)
(* resolves with is not assigned to anything.                              *)
afterSubmitTestRecordsOutcome(form, outcome) ==
    IF outcome = "true"
       THEN [form EXCEPT !.fields =
                [i \in 1..Len(form.fields) |->
                    [form.fields[i] EXCEPT !.hasCustomValidation = TRUE]]]
       ELSE form

afterSubmitTest(form, outcome) == form

(* forms.filter(f => ...).length *)
CountForms(list, Test(_)) == Len(SelectSeq(list, Test))

(* The object analyzeFormValidation returns from its try block.            *)
formValidationResult(list) ==
    LET SomeValidated(f) == \E i \in 1..Len(f.fields) : f.fields[i].hasValidation
        SomeCustom(f) == \E i \in 1..Len(f.fields) : f.fields[i].hasCustomValidation
        HasCsrf(f) == f.hasCsrfToken
    IN  [ totalForms |-> Len(list),
          formsSummary |->
              [ withValidation |-> CountForms(list, SomeValidated),
                withCustomValidation |-> CountForms(list, SomeCustom),
                withCsrfProtection |-> CountForms(list, HasCsrf) ],
          details |-> list ]

notFvVars ==
    << auditVars, tpVars, secVars, pwaVars, blVars, navVars, fnVars, accVars, ckVars >>

FvInit ==
    /\ AuditNotRunning("analyzeFormValidation")
    /\ fvPc = "launch" /\ forms = << >> /\ submitTests = << >> /\ fvResult = Unset
    /\ TpIdle /\ SecIdle /\ PwaIdle /\ BlIdle /\ NavIdle /\ FnIdle /\ AccIdle /\ CkIdle

(* puppeteer.launch, in front of the try block.                            *)
FvLaunch ==
    /\ fvPc = "launch"
    /\ fvPc' \in { "newPage", "threw" }
    /\ UNCHANGED << forms, submitTests, fvResult >>
    /\ UNCHANGED notFvVars

(* browser.newPage, page.goto: a rejection is caught by the outer catch,   *)
(* which returns null.                                                     *)
FvOpenPage ==
    /\ fvPc \in { "newPage", "goto" }
    /\ \/ /\ fvPc' = IF fvPc = "newPage" THEN "goto" ELSE "evaluate"
          /\ UNCHANGED fvResult
       \/ /\ fvPc' = "close"
          /\ fvResult' = Null
    /\ UNCHANGED << forms, submitTests >>
    /\ UNCHANGED notFvVars

(* const forms = await page.evaluate(...) *)
FvEvaluate ==
    /\ fvPc = "evaluate"
    /\ \/ /\ forms' \in FormLists
          /\ fvPc' = "loop"
          /\ UNCHANGED fvResult
       \/ /\ fvPc' = "close"
          /\ fvResult' = Null
          /\ UNCHANGED forms
    /\ UNCHANGED submitTests
    /\ UNCHANGED notFvVars

(* One iteration of for (const form of forms): the submit test resolves or *)
(* rejects; the inner catch logs a warning.                                *)
FvTestForm ==
    /\ fvPc = "loop"
    /\ Len(submitTests) < Len(forms)
    /\ \E outcome \in SubmitTestOutcomes :
         LET k == Len(submitTests) + 1 IN
         /\ submitTests' = Append(submitTests, outcome)
         /\ forms' = [forms EXCEPT ![k] = afterSubmitTest(forms[k], outcome)]
    /\ UNCHANGED << fvPc, fvResult >>
    /\ UNCHANGED notFvVars

(* return { totalForms, formsSummary, details: forms } *)
FvReturn ==
    /\ fvPc = "loop"
    /\ Len(submitTests) = Len(forms)
    /\ fvResult' = formValidationResult(forms)
    /\ fvPc' = "close"
    /\ UNCHANGED << forms, submitTests >>
    /\ UNCHANGED notFvVars

(* finally { await browser.close(); } *)
FvClose ==
    /\ fvPc = "close"
    /\ \/ fvPc' = "done" /\ UNCHANGED fvResult
       \/ fvPc' = "threw" /\ fvResult' = Unset
    /\ UNCHANGED << forms, submitTests >>
    /\ UNCHANGED notFvVars

FvNext ==
    \/ FvLaunch
    \/ FvOpenPage
    \/ FvEvaluate
    \/ FvTestForm
    \/ FvReturn
    \/ FvClose

FormValidationSpec == FvInit /\ [][FvNext]_vars

(* ======================= properties of the audit ======================= *)
FullAudit == entry = "generateFullReport"

LastStarted == started[Len(started)]

(* The last started probe has handed control back, by return or by throw.  *)
ProbeOver == started # << >> /\ phase \in { "idle", "threw" }

RECURSIVE CountOps(_, _, _)
CountOps(log, op, oks) ==
    IF log = << >> THEN 0
    ELSE (IF log[1].op = op /\ log[1].ok \in oks THEN 1 ELSE 0)
         + CountOps(Tail(log), op, oks)

TopLevelKinds == { "performance", "security", "stressTest", "accessibility" }

DetailKinds == { "formValidation", "pwaReadiness", "thirdPartyServices", "backlinks" }

Occurrences(rep, k) ==
    (IF k \in DOMAIN rep THEN 1 ELSE 0)
    + (IF k \in DOMAIN rep.additionalTests.details THEN 1 ELSE 0)

ReportValue(rep, k) == IF k \in TopLevelKinds THEN rep[k] ELSE rep.additionalTests.details[k]

(* C1: an exception raised inside a probe after its browser was launched   *)
(* (creating the page, setting the user agent, navigating, evaluating)     *)
(* never leaves generateFullReport.                                        *)
C1_ProbeFailureNeverAbortsAudit ==
    (FullAudit /\ status = "thrown") =>
        exc.step \notin { "newPage", "setUserAgent", "goto", "evaluate", "lighthouse",
                          "evalButtons", "evalInputs", "evalCors", "setOfflineModeFalse" }

(* C2: a returned report holds every probe kind exactly once, the four     *)
(* top-level kinds at the top level and the four others under              *)
(* additionalTests.details, whichever probes fell back.                    *)
C2_ReportSchemaComplete ==
    (FullAudit /\ status = "returned") =>
        /\ \A k \in TopLevelKinds : k \in DOMAIN report /\ Occurrences(report, k) = 1
        /\ \A k \in DetailKinds :
              k \in DOMAIN report.additionalTests.details /\ Occurrences(report, k) = 1

C2_Witness ==
    /\ FullAudit /\ status = "returned"
    /\ results["performance"] = PerformanceFallback
    /\ results["thirdPartyServices"] = Null
    /\ results["backlinks"] = BacklinksFallback

SuccessShape(p) ==
    IF p = "stressTest" THEN { "buttons", "inputFields", "cors" } ELSE DOMAIN Success(p)

(* C3: in a returned report the result of every probe but form validation  *)
(* is a non-null record of the shape of the probe's success payload.       *)
C3_NoNullResultButForms ==
    (FullAudit /\ status = "returned") =>
        \A p \in Probes \ { "formValidation" } :
            /\ ReportValue(report, p) # Null
            /\ ReportValue(report, p) # Unset
            /\ DOMAIN ReportValue(report, p) = SuccessShape(p)

(* C4: when a probe hands control back, every browser it launched has had  *)
(* close()/kill() called on it exactly once.                               *)
C4_BrowserClosedExactlyOnce ==
    /\ CountOps(ops, "close", BOOLEAN) <= CountOps(ops, "launch", {TRUE})
    /\ ProbeOver => CountOps(ops, "close", BOOLEAN) = CountOps(ops, "launch", {TRUE})

PendingPositions(proms) == { i \in 1..Len(proms) : proms[i] = "pending" }

InFlight == Cardinality(PendingPositions(btnPromises)) + Cardinality(PendingPositions(inpPromises))

(* C5: at most `concurrency` interactions are dispatched and not settled,  *)
(* and every one of them belongs to the batch being awaited.               *)
C5_AtMostKInFlight ==
    /\ InFlight <= concurrency
    /\ \A i \in PendingPositions(btnPromises) :
          chunkIdx >= 1 /\ i \in Elems(chunkedButtonPromises[chunkIdx])
    /\ \A i \in PendingPositions(inpPromises) :
          chunkIdx >= 1 /\ i \in Elems(chunkedInputPromises[chunkIdx])

CeilDiv(n, k) == (n + k - 1) \div k

RECURSIVE Flatten(_)
Flatten(chs) == IF chs = << >> THEN << >> ELSE chs[1] \o Flatten(Tail(chs))

ChunkingOK(chs, n) ==
    /\ Len(chs) = CeilDiv(n, concurrency)
    /\ \A c \in 1..Len(chs) :
          /\ Len(chs[c]) <= concurrency
          /\ c < Len(chs) => Len(chs[c]) = concurrency
    /\ Flatten(chs) = Positions(n)

(* C6: chunkArray splits N operations into ceil(N/K) batches of at most K, *)
(* all but the last of exactly K, whose concatenation is the original      *)
(* sequence; 3 buttons with K = 2 give batches of sizes 2 and 1.           *)
C6_ChunkArrayPartition ==
    /\ ChunkingOK(chunkedButtonPromises, Len(btnPromises))
    /\ ChunkingOK(chunkedInputPromises, Len(inpPromises))
    /\ (Len(btnPromises) = 3 /\ concurrency = 2) =>
          /\ Len(chunkedButtonPromises) = 2
          /\ Len(chunkedButtonPromises[1]) = 2
          /\ Len(chunkedButtonPromises[2]) = 1

C6_Witness ==
    /\ Len(btnPromises) = 3 /\ concurrency = 2
    /\ chunkedButtonPromises # << >>
    /\ Len(inpPromises) = 2 /\ chunkedInputPromises # << >>

SweepReturned == results["stressTest"] # Unset

SweepNormal == results["stressTest"].cors = corsDetails

Attempted(kind, i) == \E d \in 1..Len(dispatched) : dispatched[d] = [kind |-> kind, index |-> i - 1]

ElementSettled(rec) ==
    \/ rec.success /\ rec.error = NoError
    \/ ~rec.success /\ rec.error = ErrorMessage

(* C7: when the sweep returns its normal result every discovered button    *)
(* and input has been attempted and carries success or the caught error;   *)
(* a failing click or fill never makes the sweep fall back.                *)
C7_InteractionsIsolated ==
    SweepReturned =>
        /\ SweepNormal =>
              /\ results["stressTest"].buttons = buttons
              /\ results["stressTest"].inputFields = inputFields
              /\ \A i \in 1..Len(buttons) :
                    /\ Attempted("click", i)
                    /\ btnPromises[i] = "fulfilled"
                    /\ ElementSettled(buttons[i])
              /\ \A i \in 1..Len(inputFields) :
                    /\ Attempted("fill", i)
                    /\ inpPromises[i] = "fulfilled"
                    /\ ElementSettled(inputFields[i])
        /\ ~SweepNormal =>
              /\ results["stressTest"] = SweepFallback
              /\ caughtStep \notin { "clickButtons", "fillInputs" }

C7_Witness ==
    /\ SweepReturned /\ SweepNormal
    /\ concurrency = 1
    /\ Len(results["stressTest"].buttons) = 3
    /\ ~results["stressTest"].buttons[1].success
    /\ results["stressTest"].buttons[2].success
    /\ ~results["stressTest"].buttons[3].success
    /\ Len(results["stressTest"].inputFields) = 2
    /\ ~results["stressTest"].inputFields[1].success
    /\ results["stressTest"].inputFields[2].success

IsPrefix(a, b) == Len(a) <= Len(b) /\ \A i \in 1..Len(a) : a[i] = b[i]

(* C8: the probes are started one after another in the fixed order, each   *)
(* only after the previous one has returned, and never are the browsers of *)
(* two probes live together.                                               *)
C8_ProbesStrictlySequential ==
    /\ Cardinality(live) <= 1
    /\ live # {} => live = { LastStarted }
    /\ FullAudit =>
          IsPrefix(started,
                   << "performance", "security", "accessibility", "stressTest",
                      "thirdPartyServices", "formValidation", "pwaReadiness",
                      "backlinks" >>)
    /\ \A i \in 1..(Len(started) - 1) : results[started[i]] # Unset

C8_Witness ==
    /\ FullAudit
    /\ live = { "backlinks" }
    /\ phase = "try"
    /\ \A p \in Probes \ { "backlinks" } : results[p] # Unset

LaunchFailed == \E i \in 1..Len(ops) : ops[i] = [op |-> "launch", ok |-> FALSE]

(* C10: a failed browser launch is fatal in every probe: it leaves the     *)
(* probe and generateFullReport, nothing more is called on the session and *)
(* no report is written.                                                   *)
C10_LaunchFailureIsFatal ==
    LaunchFailed =>
        /\ status = "thrown"
        /\ exc = [probe |-> LastStarted, step |-> "launch"]
        /\ ops[Len(ops)] = [op |-> "launch", ok |-> FALSE]
        /\ fileWrites = 0


(* ================= properties of analyzeThirdPartyServices ============= *)
TpReturned == tpResult # Unset /\ tpResult # Null

RequestHosts(reqs) == { hostname(reqs[i].url) : i \in 1..Len(reqs) }

FragmentGroups ==
    [ analytics |-> { FragGoogle },
      social |-> { FragFacebook, FragFb },
      advertising |-> { FragAds, FragDoubleclick },
      cdn |-> { FragCdn } ]

MatchingCategories(d) ==
    { c \in DOMAIN FragmentGroups : \E f \in FragmentGroups[c] : includes(d, f) }

(* C11: first-party requests are excluded, details has one entry per other *)
(* host, a host with fragments of exactly one category gets it, a host     *)
(* with none is unknown; example.com with hosts example.com,               *)
(* ads.example.net, static-cdn.io gives advertising and cdn.               *)
C11_ThirdPartyClassification ==
    TpReturned =>
        /\ DOMAIN tpResult.details = RequestHosts(emitted) \ { hostname(TargetUrl) }
        /\ \A d \in DOMAIN tpResult.details :
              /\ \A c \in DOMAIN FragmentGroups :
                    MatchingCategories(d) = {c} => tpResult.details[d].category = c
              /\ MatchingCategories(d) = {} => tpResult.details[d].category = "unknown"
        /\ RequestHosts(emitted) = { HostExampleCom, HostAdsExampleNet, HostStaticCdnIo } =>
              /\ DOMAIN tpResult.details = { HostAdsExampleNet, HostStaticCdnIo }
              /\ tpResult.details[HostAdsExampleNet].category = "advertising"
              /\ tpResult.details[HostStaticCdnIo].category = "cdn"

C11_Witness ==
    /\ TpReturned
    /\ RequestHosts(emitted) = { HostExampleCom, HostAdsExampleNet, HostStaticCdnIo }
    /\ tpResult.totalThirdPartyDomains = 2

PriorityOrder == << "analytics", "social", "advertising", "cdn" >>

FirstMatch(d) ==
    LET i == CHOOSE k \in 1..Len(PriorityOrder) :
                /\ PriorityOrder[k] \in MatchingCategories(d)
                /\ \A j \in 1..(k - 1) : PriorityOrder[j] \notin MatchingCategories(d)
    IN  PriorityOrder[i]

(* C12: a host with fragments of several categories gets the category of  *)
(* the earliest matching group in the order google, facebook/fb,           *)
(* ads/doubleclick, cdn.                                                   *)
C12_FirstMatchWins ==
    TpReturned =>
        \A d \in DOMAIN tpResult.details :
            MatchingCategories(d) # {} => tpResult.details[d].category = FirstMatch(d)

EventsOfHost(d) == { i \in 1..Len(emitted) : hostname(emitted[i].url) = d }

(* C13: requestCount of a host is the number of captured request events    *)
(* of that host, repeated ones included, and types is the set of their     *)
(* resource types.                                                         *)
C13_RequestsNotDeduplicated ==
    TpReturned =>
        \A d \in DOMAIN tpResult.details :
            /\ tpResult.details[d].requestCount = Cardinality(EventsOfHost(d))
            /\ tpResult.details[d].types = { emitted[i].type : i \in EventsOfHost(d) }

C13_Witness ==
    /\ TpReturned
    /\ Len(emitted) >= 3
    /\ emitted[1] = emitted[2]
    /\ emitted[3].type # emitted[1].type
    /\ hostname(emitted[3].url) = hostname(emitted[1].url)
    /\ hostname(emitted[1].url) \in DOMAIN tpResult.details
    /\ tpResult.details[hostname(emitted[1].url)].requestCount = 3

(* C14: the request listener is registered before the navigation starts,   *)
(* so every request event emitted during page.goto is in the Set.          *)
C14_ListenerBeforeNavigation ==
    /\ navigating => listening
    /\ requests = emitted

C14_Witness ==
    /\ TpReturned
    /\ Len(emitted) >= 2
    /\ requests = emitted


(* ===================== properties of the fill values =================== *)
Digits10 == << "0", "1", "2", "3", "4", "5", "6", "7", "8", "9" >>

ExpectedFillValue(i) ==
    << "t", "e", "s", "t", " ", "v", "a", "l", "u", "e", " ", Digits10[i + 1] >>

(* C15: the input with discovery index i is filled with "test value i",    *)
(* the values of distinct inputs differ, and the value lands in the DOM    *)
(* input at position i.                                                    *)
C15_FillValuesPerIndex ==
    /\ \A i \in 1..Len(inputFields) :
          /\ inputFields[i].success =>
                /\ inputFields[i].valueAfter = ExpectedFillValue(inputFields[i].index)
                /\ domInputValues[i] = ExpectedFillValue(i - 1)
          /\ ~inputFields[i].success => domInputValues[i] = << >>
    /\ \A i, j \in 1..Len(inputFields) :
          (i # j /\ inputFields[i].success /\ inputFields[j].success) =>
              inputFields[i].valueAfter # inputFields[j].valueAfter

C15_Witness ==
    /\ Len(inputFields) = 2
    /\ inputFields[1].success /\ inputFields[2].success
    /\ domInputValues = << ExpectedFillValue(0), ExpectedFillValue(1) >>


(* ===================== properties of analyzeSecurity =================== *)
SecSucceeded == secResult # Unset /\ ~secFailed

Bit(h) == IF h \in responseHeaders THEN 1 ELSE 0

(* C16: the score is the sum of the weights of the headers present, lies   *)
(* in 0..100, is 100 exactly when all seven are present, 0 when none is,   *)
(* and 35 for Strict-Transport-Security with X-Frame-Options.              *)
C16_SecurityScore ==
    SecSucceeded =>
        /\ secResult.score =
              20 * Bit("Strict-Transport-Security") + 25 * Bit("Content-Security-Policy")
              + 15 * Bit("X-Frame-Options") + 15 * Bit("X-Content-Type-Options")
              + 10 * Bit("Referrer-Policy") + 10 * Bit("Permissions-Policy")
              + 5 * Bit("X-XSS-Protection")
        /\ secResult.score \in 0..100
        /\ secResult.score = 100 <=> responseHeaders = SecurityHeaderNames
        /\ responseHeaders = {} => secResult.score = 0
        /\ responseHeaders = { "Strict-Transport-Security", "X-Frame-Options" } =>
              secResult.score = 35

C16_Witness ==
    /\ SecSucceeded
    /\ responseHeaders = { "Strict-Transport-Security", "X-Frame-Options" }
    /\ secResult.score = 35

HighPriorityHeaders == { "Strict-Transport-Security", "Content-Security-Policy" }

(* C17: a successful probe recommends exactly the missing ones of HSTS and *)
(* CSP, each with priority High; a failed probe has score 0 and no         *)
(* recommendation.                                                         *)
C17_SecurityRecommendations ==
    /\ SecSucceeded =>
          /\ Len(secResult.recommendations) =
                Cardinality(HighPriorityHeaders \ responseHeaders)
          /\ \A i \in 1..Len(secResult.recommendations) :
                secResult.recommendations[i].priority = "High"
          /\ "Strict-Transport-Security" \notin responseHeaders <=>
                \E i \in 1..Len(secResult.recommendations) :
                    secResult.recommendations[i].message =
                        "Implement HSTS to enforce HTTPS connections"
          /\ "Content-Security-Policy" \notin responseHeaders <=>
                \E i \in 1..Len(secResult.recommendations) :
                    secResult.recommendations[i].message =
                        "Implement Content Security Policy to prevent XSS attacks"
    /\ secFailed => secResult.score = 0 /\ secResult.recommendations = << >>

C17_Witness ==
    /\ SecSucceeded
    /\ responseHeaders = { "Strict-Transport-Security", "Referrer-Policy" }
    /\ Len(secResult.recommendations) = 1


(* =================== properties of analyzePWAReadiness ================= *)
PwaCallAt(i, call) == pwaLog[i].call = call

(* Every setOfflineMode(true) is followed by a setOfflineMode(false) that  *)
(* comes before any close.                                                 *)
OnlineRestored ==
    \A i \in 1..Len(pwaLog) :
        PwaCallAt(i, "setOfflineMode(true)") =>
            \E j \in (i + 1)..Len(pwaLog) :
                /\ PwaCallAt(j, "setOfflineMode(false)")
                /\ \A k \in 1..j : ~PwaCallAt(k, "close")

(* C18: once setOfflineMode(true) has been called, setOfflineMode(false)   *)
(* is called before the browser is closed and before the probe returns,    *)
(* whether or not the reload and the content check succeeded.              *)
C18_OnlineModeRestored ==
    (pwaPc \in { "close", "done", "threw" }) => OnlineRestored

C18_Witness ==
    /\ pwaPc = "done"
    /\ \E i \in 1..Len(pwaLog) : pwaLog[i] = [call |-> "setOfflineMode(true)", ok |-> TRUE]
    /\ \E i \in 1..Len(pwaLog) : pwaLog[i] = [call |-> "reload", ok |-> FALSE]
    /\ \E i \in 1..Len(pwaLog) : pwaLog[i] = [call |-> "setOfflineMode(false)", ok |-> TRUE]
    /\ pwaResult # Null
    /\ ~offline


(* ==================== properties of analyzeBacklinks =================== *)
ConnectionFailed(i) == outcomes[i].kind = "rejected"

NonSuccess(i) == outcomes[i].kind = "response" /\ outcomes[i].status >= 400

(* The checked links that the claim calls broken, by position in links.    *)
BrokenPositions == { i \in 1..Len(outcomes) : ConnectionFailed(i) \/ NonSuccess(i) }

(* The place in brokenLinks of the broken link at position i.              *)
BrokenRank(i) == Cardinality({ j \in BrokenPositions : j <= i })

BrokenEntryOK(list, i) ==
    LET e == list[BrokenRank(i)] IN
    /\ e.url = links[i].href
    /\ e.anchorText = links[i].text
    /\ ("error" \in DOMAIN e) <=> ConnectionFailed(i)
    /\ IF ConnectionFailed(i)
          THEN e.statusCode = StringValue("Connection failed")
          ELSE e.statusCode = NumberValue(outcomes[i].status)

BrokenListOK(list) ==
    /\ Len(list) = Cardinality(BrokenPositions)
    /\ \A i \in BrokenPositions : BrokenEntryOK(list, i)

(* C19: brokenLinks holds exactly the checked links whose HEAD request     *)
(* answered with a status >= 400 or was rejected, in order; an entry has   *)
(* an error field exactly when the request was rejected; a link answered   *)
(* with a status below 400 has no entry.  The returned object carries      *)
(* that list.                                                              *)
C19_BrokenLinksClassification ==
    /\ BrokenListOK(brokenLinks)
    /\ (blPc = "done" /\ Len(links) > 0) =>
           /\ Len(outcomes) = Len(links)
           /\ blResult.totalChecked = Len(links)
           /\ BrokenListOK(blResult.brokenLinks)

C19_Witness ==
    /\ blPc = "done"
    /\ \E i, j, k \in 1..Len(outcomes) :
         /\ outcomes[i] = [kind |-> "response", status |-> 404]
         /\ ConnectionFailed(j)
         /\ outcomes[k].kind = "response" /\ outcomes[k].status < 400
    /\ Len(blResult.brokenLinks) = 2
    /\ \E n \in 1..2 : "error" \in DOMAIN blResult.brokenLinks[n]
    /\ \E n \in 1..2 : "error" \notin DOMAIN blResult.brokenLinks[n]


(* ====================== properties of the report ======================= *)
(* C20: the report generateFullReport returns has an overallScore equal to *)
(* round(0.4 * performance score + 0.3 * security score), the value the    *)
(* console summary prints as the overall score.                            *)
C20_OverallScoreInReport ==
    (FullAudit /\ status = "returned") =>
        /\ "overallScore" \in DOMAIN report
        /\ report.overallScore = calculateOverallScore(report.performance, report.security)


(* ==================== properties of the navigations ==================== *)
(* C21: a navigation issued by a probe never waits longer than the         *)
(* configured this.options.timeout.                                        *)
C21_NavigationBoundedByOptionsTimeout ==
    navPc = "waiting" => elapsed <= optionsTimeout


(* =================== properties of the report file name ================ *)
SafeCodeUnits == Range(LowerCaseLetters) \cup DecimalDigits \cup { "_" }

(* The code unit the claim gives for c: '_' unless c is a letter or a      *)
(* digit, and then c in lower case.                                        *)
ExpectedSafe(c, out) ==
    IF c \in DecimalDigits THEN out = c
    ELSE IF c \in Range(LowerCaseLetters) THEN out = c
    ELSE IF c \in Range(UpperCaseLetters)
       THEN \E i \in 1..Len(UpperCaseLetters) : UpperCaseLetters[i] = c /\ out = LowerCaseLetters[i]
    ELSE out = "_"

SanitizedOK(in, out) ==
    /\ Len(out) = Len(in)
    /\ \A i \in 1..Len(out) : out[i] \in SafeCodeUnits /\ ExpectedSafe(in[i], out[i])

StampOK(in, out) ==
    /\ Len(out) = Len(in)
    /\ \A i \in 1..Len(out) : out[i] = (IF in[i] = ":" \/ in[i] = "." THEN "-" ELSE in[i])

(* C22: _sanitizeFilename keeps the length, yields only [a-z0-9_], maps    *)
(* every non-alphanumeric code unit to '_' and lowercases the others, and  *)
(* is idempotent; the file name is the sanitized target, '_', the          *)
(* timestamp with ':' and '.' replaced by '-', and '_audit_report.json'.   *)
C22_SanitizedFilename ==
    fnFilename # Unset =>
        LET n == Len(fnUrl)
            m == Len(fnNow)
            name == SubSeq(fnFilename, 1, n)
        IN  /\ Len(fnFilename) = n + 1 + m + Len(AuditReportSuffix)
            /\ SanitizedOK(fnUrl, name)
            /\ sanitizeFilename(fnUrl) = name
            /\ sanitizeFilename(name) = name
            /\ fnFilename[n + 1] = "_"
            /\ StampOK(fnNow, SubSeq(fnFilename, n + 2, n + 1 + m))
            /\ SubSeq(fnFilename, n + 2 + m, Len(fnFilename)) = AuditReportSuffix

C22_Witness ==
    /\ fnFilename # Unset
    /\ fnUrl = << "T", ":", "U+0130" >>
    /\ SubSeq(fnFilename, 1, 4) = << "t", "_", "_", "_" >>


(* ================= properties of analyzeAccessibility ================== *)
(* Both calls returned the report of their page function.                  *)
BothRunsSucceeded ==
    /\ accPc = "done" /\ Len(accReports) = 2
    /\ accCaught = {}
    /\ \A r \in 1..2 : accReports[r] # Thrown

SweepIsLast == started # << >> /\ LastStarted = "stressTest"

NoElements == buttons = << >> /\ inputFields = << >>

(* C24: on a page without buttons and inputs the sweep issues no           *)
(* interaction, its chunk loops raise nothing, and when no other step      *)
(* fails it returns empty arrays with the CORS details, not the fallback.  *)
C24_NoElementsIsNormalResult ==
    (SweepIsLast /\ NoElements) =>
        /\ dispatched = << >>
        /\ caughtStep \notin { "clickButtons", "fillInputs" }
        /\ (SweepReturned /\ caughtStep = "none") =>
              /\ results["stressTest"] =
                    [buttons |-> << >>, inputFields |-> << >>, cors |-> corsDetails]
              /\ results["stressTest"] # SweepFallback

C24_Witness ==
    /\ SweepIsLast /\ NoElements
    /\ SweepReturned /\ caughtStep = "none"
    /\ results["stressTest"].buttons = << >>
    /\ results["stressTest"].inputFields = << >>
    /\ DOMAIN results["stressTest"].cors = CorsMethods


(* C25: the page.evaluate calls of the click callbacks are issued in the   *)
(* order of the buttons' indices, and so are those of the fill callbacks;  *)
(* every created promise has its call issued.  The order in which the      *)
(* calls settle is free.                                                   *)
C25_DispatchInIndexOrder ==
    /\ \A a, b \in 1..Len(dispatched) :
          (a < b /\ dispatched[a].kind = dispatched[b].kind) =>
              dispatched[a].index < dispatched[b].index
    /\ \A i \in 1..Len(btnPromises) : Attempted("click", i)
    /\ \A i \in 1..Len(inpPromises) : Attempted("fill", i)

(* Two clicks of one chunk, the later one settled first.                   *)
C25_Witness ==
    /\ Len(btnPromises) >= 2
    /\ chunkedButtonPromises # << >>
    /\ { 1, 2 } \subseteq Elems(chunkedButtonPromises[1])
    /\ btnPromises[1] = "pending"
    /\ btnPromises[2] = "fulfilled"
    /\ \E a, b \in 1..Len(dispatched) :
          /\ a < b
          /\ dispatched[a] = [kind |-> "click", index |-> 0]
          /\ dispatched[b] = [kind |-> "click", index |-> 1]


(* ========== further properties of analyzeThirdPartyServices ============ *)
(* C26: two request events with the same url, resource type and method     *)
(* are one element of the Set, so a host's requestCount is the number of   *)
(* distinct (url, type, method) triples requested from it.                 *)
C26_RequestsKeyedByIdentity ==
    /\ \A i, j \in 1..Len(requests) : requests[i] = requests[j] => i = j
    /\ TpReturned =>
          \A d \in DOMAIN tpResult.details :
              tpResult.details[d].requestCount
                  = Cardinality({ emitted[i] : i \in EventsOfHost(d) })


(* ================ further properties of analyzeBacklinks =============== *)
(* The k-th position of a set of positions, counted from 1.                *)
RankIn(set, i) == Cardinality({ j \in set : j <= i })

(* C27 as stated: one HEAD request per a element of the page, in document  *)
(* order; totalChecked is the number of a elements; brokenLinks is never   *)
(* longer than totalChecked.                                               *)
C27_EveryAnchorChecked ==
    blPc = "done" =>
        /\ Len(fetched) = Len(anchors)
        /\ \A i \in 1..Len(fetched) :
              fetched[i] = [url |-> anchors[i].href, method |-> "HEAD"]
        /\ blResult.totalChecked = Len(anchors)
        /\ Len(blResult.brokenLinks) <= blResult.totalChecked

JavascriptScheme == << "j", "a", "v", "a", "s", "c", "r", "i", "p", "t", ":" >>

(* The a elements that have an href and whose href is not a javascript:    *)
(* URL, by position.                                                       *)
CheckablePositions ==
    { i \in 1..Len(anchors) :
        anchors[i].href # << >> /\ ~IsPrefix(JavascriptScheme, anchors[i].href) }

(* C27, amended: one HEAD request per a element that has an href other     *)
(* than a javascript: URL, in document order, whatever the earlier         *)
(* requests did; totalChecked is the number of those elements; brokenLinks *)
(* is never longer than totalChecked.                                      *)
C27_EveryHrefAnchorChecked ==
    /\ Len(fetched) = Len(outcomes)
    /\ Len(fetched) <= Cardinality(CheckablePositions)
    /\ \A i \in CheckablePositions :
          RankIn(CheckablePositions, i) <= Len(fetched) =>
              fetched[RankIn(CheckablePositions, i)]
                  = [url |-> anchors[i].href, method |-> "HEAD"]
    /\ blPc = "done" =>
          /\ links \in LinkLists
          /\ Len(fetched) = Cardinality(CheckablePositions)
          /\ blResult.totalChecked = Cardinality(CheckablePositions)
          /\ Len(blResult.brokenLinks) <= blResult.totalChecked

C27_Witness ==
    /\ blPc = "done"
    /\ Len(anchors) = 3 /\ Len(outcomes) = 2
    /\ anchors[1].href = << >>
    /\ outcomes[1].kind = "rejected"
    /\ outcomes[2] = [kind |-> "response", status |-> 200]
    /\ blResult.totalChecked = 2
    /\ Len(blResult.brokenLinks) = 1


(* ============ further properties of the interaction sweep (2) ========== *)
(* The sweep is in its finally block, has returned, or has thrown from it. *)
SweepClosing == InProbe /\ Probe = "stressTest" /\ phase = "finally"

SweepThrewOnClose == exc = [probe |-> "stressTest", step |-> "close"]

(* C28: when the sweep closes its browser and when it returns, no click    *)
(* or fill is in flight, and the records it returned are the records as    *)
(* they are now: no callback changes them afterwards.                      *)
C28_NoInteractionOutlivesSweep ==
    /\ (SweepClosing \/ SweepThrewOnClose \/ SweepReturned) => InFlight = 0
    /\ (SweepReturned /\ SweepNormal) =>
          /\ results["stressTest"].buttons = buttons
          /\ results["stressTest"].inputFields = inputFields

C28_Witness ==
    /\ SweepReturned /\ SweepNormal
    /\ Len(chunkedButtonPromises) >= 2
    /\ Len(btnPromises) >= 3 /\ Len(inpPromises) >= 1
    /\ \A i \in 1..Len(btnPromises) : btnPromises[i] = "fulfilled"
    /\ results["stressTest"].buttons[3].success


(* ======================= properties of chunkArray ====================== *)
(* C29: for every integer size, chunkArray called on a non-empty array     *)
(* reaches its return statement.                                           *)
C29_ChunkArrayTerminates ==
    (ckPc = "loop" /\ Len(ckArray) >= 1) ~> (ckPc = "returned")


(* C30: when a call of the sweep's try block other than the per-element    *)
(* callbacks rejects (user agent, navigation, the two enumerations, the    *)
(* CORS evaluate), the sweep returns { buttons: [], inputFields: [],       *)
(* cors: {} }: no record of an element, settled or not, is in the result.  *)
C30_SweepAllOrNothing ==
    LET emptyResult == [buttons |-> << >>, inputFields |-> << >>, cors |-> EmptyObject]
        failed == caughtStep \in { "setUserAgent", "goto", "evalButtons", "evalInputs",
                                   "evalCors" }
    IN  /\ (SweepClosing /\ failed) => pending = emptyResult
        /\ (SweepIsLast /\ SweepReturned /\ failed) => results["stressTest"] = emptyResult
        /\ (SweepIsLast /\ SweepReturned /\ ~failed) => SweepNormal

(* The CORS evaluate rejected after a click and a fill had succeeded.      *)
C30_Witness ==
    /\ SweepIsLast /\ SweepReturned
    /\ caughtStep = "evalCors"
    /\ \E i \in 1..Len(buttons) : buttons[i].success
    /\ \E i \in 1..Len(inputFields) : inputFields[i].success
    /\ results["stressTest"].buttons = << >>
    /\ results["stressTest"].inputFields = << >>


(* ================= further properties of the audit ===================== *)
ClosesOf(oks) == { i \in 1..Len(ops) : ops[i].op = "close" /\ ops[i].ok \in oks }

ProbesAfter(p) ==
    { ProbeOrder[j] : j \in { k \in 1..Len(ProbeOrder) :
                                \E i \in 1..Len(ProbeOrder) : ProbeOrder[i] = p /\ k > i } }

(* C31: when the close()/kill() of a probe's finally block rejects, its    *)
(* exception replaces the value the probe was about to return and leaves   *)
(* generateFullReport: the probe's result never reaches it, no later probe *)
(* is called and no report is built or written.  A probe that ran a        *)
(* close()/kill() hands over its value only when that call resolved.       *)
C31_CloseFailureReplacesResult ==
    FullAudit =>
        /\ (started # << >> /\ ClosesOf({ FALSE }) # {}) =>
              /\ status = "thrown"
              /\ exc = [probe |-> LastStarted, step |-> "close"]
              /\ results[LastStarted] = Unset
              /\ \A p \in ProbesAfter(LastStarted) :
                    p \notin Elems(started) /\ results[p] = Unset
              /\ report = Unset
              /\ fileWrites = 0
        /\ (started # << >> /\ results[LastStarted] # Unset /\ ClosesOf(BOOLEAN) # {}) =>
              ClosesOf({ TRUE }) # {}

(* The fallback of analyzeAccessibility was pending when close rejected.   *)
C31_Witness ==
    /\ FullAudit /\ status = "thrown"
    /\ exc = [probe |-> "accessibility", step |-> "close"]
    /\ caughtStep = "goto"
    /\ pending = AccessibilityFallback
    /\ results["accessibility"] = Unset
    /\ results["security"] # Unset


(* ================== properties of analyzeFormValidation ================ *)
FvReturned == fvResult # Unset /\ fvResult # Null

FormsWhere(list, Test(_)) == Cardinality({ i \in 1..Len(list) : Test(list[i]) })

RECURSIVE SumOfValues(_)
SumOfValues(obj) ==
    IF DOMAIN obj = {} THEN 0
    ELSE LET k == CHOOSE x \in DOMAIN obj : TRUE
         IN  obj[k] + SumOfValues([x \in DOMAIN obj \ { k } |-> obj[x]])

ThirdPartyRequests ==
    { i \in 1..Len(requests) : hostname(requests[i].url) # hostname(TargetUrl) }

(* C33: in a non-null result totalThirdPartyDomains is the number of keys  *)
(* of details, the values of categorySummary sum to it, the requestCounts  *)
(* sum to the number of captured requests of another host than the         *)
(* target's, and every entry has requestCount >= 1.                        *)
C33_ThirdPartyTotalsAgree ==
    TpReturned =>
        LET details == tpResult.details IN
        /\ tpResult.totalThirdPartyDomains = Cardinality(DOMAIN details)
        /\ SumOfValues(tpResult.categorySummary) = tpResult.totalThirdPartyDomains
        /\ SumOfValues([d \in DOMAIN details |-> details[d].requestCount])
              = Cardinality(ThirdPartyRequests)
        /\ \A d \in DOMAIN details : details[d].requestCount >= 1

(* One first-party request and two hosts of the same category.             *)
C33_Witness ==
    /\ TpReturned
    /\ RequestHosts(requests) = { HostExampleCom, HostAdsExampleNet, HostFbAdsNet }
    /\ Cardinality(ThirdPartyRequests) = 2
    /\ tpResult.totalThirdPartyDomains = 2
    /\ SumOfValues(tpResult.categorySummary) = 2
    /\ DOMAIN tpResult.categorySummary = { "advertising" }

====
